---- MODULE Spec2Model ----
(***************************************************************************)
(* The WOPR router plugin: rule matching, the incoming and outgoing        *)
(* dispatchers and the statistics ledger.                                  *)
(*                                                                         *)
(* An optional field of a rule, a configuration or a message is a record   *)
(* field that is in the record's DOMAIN or is not; a field that is present *)
(* may still hold the empty string, which JavaScript treats as falsy.      *)
(*                                                                         *)
(* An async function runs synchronously up to its next `await`; the model  *)
(* has one action per such stretch.  A dispatch is a process whose pc      *)
(* names the await it is suspended in.                                     *)
(***************************************************************************)
EXTENDS Integers, Sequences, FiniteSets, TLC

VARIABLES
    config,     \* what the host's getConfig() returns
    adapters,   \* the host's channel registry: a list of [session, type, id]
    ctx,        \* the module-level `ctx`: Host or NoCtx
    stats,      \* the module-level `stats` of stats.ts
    logged,     \* number of calls made to ctx.log.error
    procs,      \* the dispatch calls: one record per call
    probe,      \* a direct call of matchesRoute: [route, input, called, result]
    now,        \* what Date.now() returns
    snap,       \* the value a caller of getStats() holds
    uiServer,   \* the module-level `uiServer`: [listening, port]
    cleanups,   \* the module-level `cleanups`: the capability each entry calls
    host,       \* the host: [caps, calls, middleware]
    life,       \* where init and shutdown are: [pc, config, fault]
    report,     \* the last payload built: by a direct call or for an HTTP request
    ui          \* the configuration panel of ui.ts

\* What init and shutdown write, besides ctx, stats and logged.
lifecycle == <<uiServer, cleanups, host, life>>

\* What the dispatchers never write.
\* What only the reporters and the configuration panel write.
views == <<report, ui>>

rest == <<now, snap, lifecycle, views>>

vars == <<config, adapters, ctx, stats, logged, procs, probe, rest>>

----------------------------------------------------------------------------
(* Bounds *)

MaxRules == 2       \* longest rule list built from the rule pools
MaxTargets == 2     \* longest targetSessions list of the exhaustive rule set
MaxProcs == 2       \* dispatch calls that may exist
MaxCalls == 2       \* direct recorder calls between two resets, and clock ticks
MaxSaves == 1       \* calls of saveConfig the panel may make

----------------------------------------------------------------------------
(* Data *)

Host == "host"
NoCtx == "null"

EmptyRec == [f \in {} |-> ""]

Has(r, f) == f \in DOMAIN r

\* JavaScript truthiness of an optional string field: present and non-empty.
Truthy(r, f) == Has(r, f) /\ r[f] # ""

SessionIds == {"a", "b"}
TargetNames == {"", "a", "b", "c"}
ChannelTypes == {"x", "y"}
ChannelIds == {"1", "2"}
Texts == {"hi", "yo"}

Channels == [type : ChannelTypes, id : ChannelIds]

RECURSIVE SeqsUpTo(_, _)
SeqsUpTo(S, n) ==
    IF n = 0 THEN {<<>>}
    ELSE LET shorter == SeqsUpTo(S, n - 1)
         IN  shorter \cup {Append(s, e) : s \in {t \in shorter : Len(t) = n - 1}, e \in S}

\* The sum of f over S.
RECURSIVE SumOver(_, _)
SumOver(f, S) ==
    IF S = {} THEN 0
    ELSE LET x == CHOOSE y \in S : TRUE
         IN  f[x] + SumOver(f, S \ {x})

OptField(f, S) == {EmptyRec} \cup {(f :> v) : v \in S}

\* IncomingInput
IncomingInputs ==
    {(("session" :> s) @@ ("message" :> m)) @@ c :
        s \in SessionIds, m \in Texts, c \in OptField("channel", Channels)}

\* OutgoingOutput
OutgoingOutputs == [session : SessionIds, response : Texts]

\* The constraint fields shared by Route and OutgoingRoute.
RouteConstraints ==
    {(a @@ b) @@ c :
        a \in OptField("sourceSession", {"", "a", "b"}),
        b \in OptField("channelType", {"", "x", "y"}),
        c \in OptField("channelId", {"", "1", "2"})}

\* Route: every rule with a target list of at most MaxTargets entries.
Routes ==
    {c @@ t : c \in {r \in RouteConstraints :
                        /\ Has(r, "channelType") => r.channelType # "y"
                        /\ Has(r, "channelId") => r.channelId # "2"},
              t \in OptField("targetSessions", SeqsUpTo(TargetNames, MaxTargets))}

\* OutgoingRoute
OutgoingRoutes == RouteConstraints

\* The rules that multi-rule configurations are built from.
RoutePool ==
    { [targetSessions |-> <<"b", "c">>],
      [sourceSession |-> "a", targetSessions |-> <<"", "b", "">>],
      [sourceSession |-> "a", targetSessions |-> <<"a">>],
      [sourceSession |-> "b", targetSessions |-> <<"a", "c">>],
      [channelType |-> "x", targetSessions |-> <<"c">>],
      [channelId |-> "1", targetSessions |-> <<"b", "a">>],
      [sourceSession |-> "", channelType |-> "", targetSessions |-> <<"c", "c">>],
      [sourceSession |-> "a"] }

OutgoingPool ==
    { EmptyRec,
      [sourceSession |-> "a"],
      [sourceSession |-> "b", channelType |-> "y"],
      [channelType |-> "x"],
      [channelId |-> "1"],
      [sourceSession |-> "", channelType |-> "x", channelId |-> "2"] }

MultiRule(pool) == {s \in SeqsUpTo(pool, MaxRules) : Len(s) >= 2}

\* RouterConfig: one rule of any shape, or several rules from the pools,
\* in either direction; either list may be absent.
Configs ==
    {EmptyRec}
    \cup {[routes |-> rs] : rs \in {<<>>} \cup {<<r>> : r \in Routes} \cup MultiRule(RoutePool)}
    \cup {[outgoingRoutes |-> rs] :
            rs \in {<<>>} \cup {<<r>> : r \in OutgoingRoutes} \cup MultiRule(OutgoingPool)}
    \cup {[routes |-> <<r>>, outgoingRoutes |-> <<o>>] : r \in RoutePool, o \in OutgoingPool}

\* The host's channel adapters, as getChannelsForSession sees them.
HostAdapters ==
    << [session |-> "a", type |-> "x", id |-> "1"],
       [session |-> "b", type |-> "y", id |-> "2"],
       [session |-> "a", type |-> "y", id |-> "1"],
       [session |-> "a", type |-> "x", id |-> "2"] >>

\* The registries a host may have when outgoing rules are configured.
HostRegistries ==
    { HostAdapters,
      <<>>,
      << [session |-> "b", type |-> "x", id |-> "2"],
         [session |-> "a", type |-> "y", id |-> "2"],
         [session |-> "b", type |-> "x", id |-> "1"] >> }

----------------------------------------------------------------------------
(* stats.ts *)

FreshStats(t) ==
    [messagesRouted |-> 0, routeHits |-> EmptyRec, errors |-> 0,
     outgoingRouted |-> 0, startedAt |-> t]

incrementRouted(st) == [st EXCEPT !.messagesRouted = @ + 1]

incrementOutgoingRouted(st) == [st EXCEPT !.outgoingRouted = @ + 1]

RouteKey(source, target) == source \o "->" \o target

recordRouteHitOnce(st, source, target) ==
    LET key == RouteKey(source, target)
    IN  [st EXCEPT !.routeHits =
            [k \in DOMAIN st.routeHits \cup {key} |->
                IF k = key THEN 1 ELSE st.routeHits[k]]]

recordRouteHitForgetsOthers(st, source, target) ==
    LET key == RouteKey(source, target)
        old == IF key \in DOMAIN st.routeHits THEN st.routeHits[key] ELSE 0
    IN  [st EXCEPT !.routeHits = (key :> (old + 1))]

recordRouteHit(st, source, target) ==
    LET key == RouteKey(source, target)
        old == IF key \in DOMAIN st.routeHits THEN st.routeHits[key] ELSE 0
    IN  [st EXCEPT !.routeHits =
            [k \in DOMAIN st.routeHits \cup {key} |->
                IF k = key THEN old + 1 ELSE st.routeHits[k]]]

incrementErrors(st) == [st EXCEPT !.errors = @ + 1]

resetStatsCountersOnly ==
    [stats EXCEPT !.messagesRouted = 0, !.outgoingRouted = 0, !.errors = 0,
                  !.startedAt = now]

resetStatsKeepingErrors == [FreshStats(now) EXCEPT !.errors = stats.errors]

\* resetStats: a new ledger object, started at the current time.
resetStats == FreshStats(now)

getStatsSharingRouteHits(st) == [taken |-> TRUE, value |-> st, sharesRouteHits |-> TRUE]

\* getStats: a new object holding the counters and a new object holding the
\* entries of routeHits.  sharesRouteHits: the routeHits of the returned value
\* is the object the ledger writes to.
getStats(st) == [taken |-> TRUE, value |-> st, sharesRouteHits |-> FALSE]

NoSnap == [taken |-> FALSE, value |-> FreshStats(0), sharesRouteHits |-> FALSE]

\* What the holder of the value returned by getStats reads in it now.
SnapshotView ==
    IF snap.sharesRouteHits
    THEN [snap.value EXCEPT !.routeHits = stats.routeHits]
    ELSE snap.value

\* resetStats replaces the ledger object and its routeHits object: a value
\* returned earlier keeps the objects it has.
Detached(sn) == [sn EXCEPT !.value = SnapshotView, !.sharesRouteHits = FALSE]

----------------------------------------------------------------------------
(* matchesRoute *)

matchesRouteBlankConstrains(route, input) ==
    IF Has(route, "sourceSession") /\ route.sourceSession # input.session
    THEN FALSE
    ELSE IF /\ Has(route, "channelType")
            /\ (~Has(input, "channel") \/ route.channelType # input.channel.type)
    THEN FALSE
    ELSE IF /\ Has(route, "channelId")
            /\ (~Has(input, "channel") \/ route.channelId # input.channel.id)
    THEN FALSE
    ELSE TRUE

matchesRouteNoChannelId(route, input) ==
    IF Truthy(route, "sourceSession") /\ route.sourceSession # input.session
    THEN FALSE
    ELSE IF /\ Truthy(route, "channelType")
            /\ (~Has(input, "channel") \/ route.channelType # input.channel.type)
    THEN FALSE
    ELSE TRUE

matchesRouteMissingChannelWild(route, input) ==
    IF Truthy(route, "sourceSession") /\ route.sourceSession # input.session
    THEN FALSE
    ELSE IF /\ Truthy(route, "channelType")
            /\ Has(input, "channel") /\ route.channelType # input.channel.type
    THEN FALSE
    ELSE IF /\ Truthy(route, "channelId")
            /\ Has(input, "channel") /\ route.channelId # input.channel.id
    THEN FALSE
    ELSE TRUE

matchesRoute(route, input) ==
    IF Truthy(route, "sourceSession") /\ route.sourceSession # input.session
    THEN FALSE
    ELSE IF /\ Truthy(route, "channelType")
            /\ (~Has(input, "channel") \/ route.channelType # input.channel.type)
    THEN FALSE
    ELSE IF /\ Truthy(route, "channelId")
            /\ (~Has(input, "channel") \/ route.channelId # input.channel.id)
    THEN FALSE
    ELSE TRUE

----------------------------------------------------------------------------
(* A dispatch call *)

IdleProc ==
    [pc |-> "idle", kind |-> "none", input |-> EmptyRec, routes |-> <<>>,
     i |-> 0, j |-> 0, channels |-> <<>>, attempts |-> <<>>,
     result |-> "none", ret |-> "", fault |-> "none",
     hits |-> EmptyRec, sent |-> 0, failed |-> 0]

ProcIds == 1 .. MaxProcs

\* The promise of the call is fulfilled with `text`.
Returned(pr, text) == [pr EXCEPT !.pc = "done", !.result = "returned", !.ret = text]

\* The promise of the call is rejected.
Threw(pr) == [pr EXCEPT !.pc = "done", !.result = "threw"]

\* The call is suspended in a delivery: `await ctx.inject` or
\* `await adapter.send`.
Suspended(pr) == pr.pc \in {"inject", "send"}

\* The call's own tally of its deliveries: an inject that succeeded, by route
\* key; a send that succeeded; a delivery that failed.
TallyHit(pr, key) ==
    [pr EXCEPT !.hits = [k \in DOMAIN pr.hits \cup {key} |->
                            IF k \in DOMAIN pr.hits
                            THEN pr.hits[k] + (IF k = key THEN 1 ELSE 0)
                            ELSE 1]]

TallySent(pr) == [pr EXCEPT !.sent = @ + 1]

TallyFailed(pr) == [pr EXCEPT !.failed = @ + 1]

----------------------------------------------------------------------------
(* fanOutToSessions *)

TargetsOf(route) ==
    IF Has(route, "targetSessions") THEN route.targetSessions ELSE <<>>

SkipTargetKeepSelf(target, input) == target = ""

SkipTargetKeepBlank(target, input) == target = input.session

SkipTarget(target, input) == target = "" \/ target = input.session

RECURSIVE NextTargetIndexIgnoringCtx(_, _, _)
NextTargetIndexIgnoringCtx(targets, input, from) ==
    IF from > Len(targets) THEN 0
    ELSE IF SkipTarget(targets[from], input)
         THEN NextTargetIndexIgnoringCtx(targets, input, from + 1)
         ELSE from

\* The first target at or after `from` that the loop does not skip, or 0.
RECURSIVE NextTargetIndex(_, _, _)
NextTargetIndex(targets, input, from) ==
    IF from > Len(targets) THEN 0
    ELSE IF SkipTarget(targets[from], input) \/ ctx = NoCtx
         THEN NextTargetIndex(targets, input, from + 1)
         ELSE from

\* The loop of fanOutToSessions from target `from` up to its next await:
\* either inject has been called and is awaited, or the function has returned
\* and onIncoming awaits its promise.
fanOutToSessions(pr, from) ==
    LET targets == TargetsOf(pr.routes[pr.i])
        j == NextTargetIndex(targets, pr.input, from)
    IN  IF j = 0
        THEN [pr EXCEPT !.pc = "fanOutReturned", !.j = 0]
        ELSE [pr EXCEPT !.pc = "inject", !.j = j,
                        !.attempts = Append(@, [rule |-> pr.i, to |-> targets[j],
                                                text |-> pr.input.message])]

InjectSucceededNoHit(st, source, target) == incrementRouted(st)

InjectSucceededAlsoOutgoing(st, source, target) ==
    incrementOutgoingRouted(recordRouteHit(incrementRouted(st), source, target))

\* The statements after a fulfilled `await ctx.inject(...)`.
InjectSucceeded(st, source, target) ==
    recordRouteHit(incrementRouted(st), source, target)

InjectFailedAlsoRouted(st) == incrementRouted(incrementErrors(st))

\* The stats update of the catch block of fanOutToSessions.
InjectFailed(st) == incrementErrors(st)

\* The catch block's ctx?.log.error(...).
LogError(n) == IF ctx # NoCtx THEN n + 1 ELSE n

----------------------------------------------------------------------------
(* onIncoming *)

NextRuleIndexFirstMatchOnly(routes, input, from) ==
    IF from = 1 /\ \E k \in 1 .. Len(routes) : matchesRoute(routes[k], input)
    THEN CHOOSE k \in 1 .. Len(routes) :
            /\ matchesRoute(routes[k], input)
            /\ \A m \in 1 .. (k - 1) : ~matchesRoute(routes[m], input)
    ELSE 0

\* The first rule at or after `from` that matches, or 0.
RECURSIVE NextRuleIndex(_, _, _)
NextRuleIndex(routes, input, from) ==
    IF from > Len(routes) THEN 0
    ELSE IF matchesRoute(routes[from], input) THEN from
    ELSE NextRuleIndex(routes, input, from + 1)

\* The loop of onIncoming from rule `from` up to its next await.
onIncomingLoop(pr, from) ==
    LET k == NextRuleIndex(pr.routes, pr.input, from)
    IN  IF k = 0
        THEN Returned(pr, pr.input.message)
        ELSE fanOutToSessions([pr EXCEPT !.i = k], 1)

getConfigAtInit == life.config

\* ctx.getConfig(): what the configuration provider holds now.
getConfig == config

onIncomingRequiringRoutes(input, cfgOk) ==
    LET pr == [IdleProc EXCEPT !.kind = "in", !.input = input]
    IN  IF ctx # NoCtx /\ ~cfgOk
        THEN Threw([pr EXCEPT !.fault = "getConfig"])
        ELSE IF ctx # NoCtx /\ ~Has(getConfig, "routes")
        THEN Threw(pr)
        ELSE onIncomingLoop(
                [pr EXCEPT !.routes = IF ctx # NoCtx THEN getConfig.routes ELSE <<>>], 1)

\* onIncoming up to its first await.  cfgOk: getConfig returns (it throws
\* otherwise).
onIncoming(input, cfgOk) ==
    LET pr == [IdleProc EXCEPT !.kind = "in", !.input = input]
    IN  IF ctx # NoCtx /\ ~cfgOk
        THEN Threw([pr EXCEPT !.fault = "getConfig"])
        ELSE onIncomingLoop(
                [pr EXCEPT !.routes = IF ctx # NoCtx /\ Has(getConfig, "routes")
                                      THEN getConfig.routes ELSE <<>>], 1)

\* The host calls the middleware's onIncoming with one of `inputs`.
InvokeIncomingOf(p, inputs) ==
    /\ procs[p].pc = "idle"
    /\ \E input \in inputs, cfgOk \in BOOLEAN :
          procs' = [procs EXCEPT ![p] = onIncoming(input, cfgOk)]
    /\ UNCHANGED <<config, adapters, ctx, stats, logged, probe, rest>>

InvokeIncoming(p) == InvokeIncomingOf(p, IncomingInputs)

InjectRejectedAbort(pr) == Threw(pr)

\* Where fanOutToSessions goes after the catch block.
InjectRejectedThen(pr) == fanOutToSessions(pr, pr.j + 1)

\* ctx.inject fulfils.
InjectResolved(p) ==
    LET pr == procs[p]
    IN  /\ pr.pc = "inject"
        /\ stats' = InjectSucceeded(stats, pr.input.session,
                                    TargetsOf(pr.routes[pr.i])[pr.j])
        /\ procs' = [procs EXCEPT ![p] =
                        fanOutToSessions(
                            TallyHit(pr, RouteKey(pr.input.session,
                                                  TargetsOf(pr.routes[pr.i])[pr.j])),
                            pr.j + 1)]
        /\ UNCHANGED <<config, adapters, ctx, logged, probe, rest>>

\* ctx.inject rejects.
InjectRejected(p) ==
    LET pr == procs[p]
    IN  /\ pr.pc = "inject"
        /\ logged' = LogError(logged)
        /\ stats' = InjectFailed(stats)
        /\ procs' = [procs EXCEPT ![p] = InjectRejectedThen(TallyFailed(pr))]
        /\ UNCHANGED <<config, adapters, ctx, probe, rest>>

\* ctx.inject rejects and the catch block's ctx.log.error(...) throws: the
\* exception leaves the catch block before incrementErrors() and rejects the
\* promise of fanOutToSessions.
InjectRejectedLogThrows(p) ==
    LET pr == procs[p]
    IN  /\ pr.pc = "inject"
        /\ ctx # NoCtx
        /\ procs' = [procs EXCEPT ![p] =
                        [pr EXCEPT !.pc = "fanOutReturned", !.fault = "log.error"]]
        /\ UNCHANGED <<config, adapters, ctx, stats, logged, probe, rest>>

\* The promise of fanOutToSessions settles and onIncoming resumes: a
\* rejection is rethrown by the await, which rejects onIncoming.
FanOutReturned(p) ==
    LET pr == procs[p]
    IN  /\ pr.pc = "fanOutReturned"
        /\ pr.kind = "in"
        /\ procs' = [procs EXCEPT ![p] =
                        IF pr.fault # "none" THEN Threw(pr)
                        ELSE onIncomingLoop(pr, pr.i + 1)]
        /\ UNCHANGED <<config, adapters, ctx, stats, logged, probe, rest>>

----------------------------------------------------------------------------
(* fanOutToChannels *)

\* ctx.getChannelsForSession(session): the adapters bound to the session, in
\* registry order.
getChannelsForSession(session) ==
    SelectSeq(adapters, LAMBDA a : a.session = session)

AdapterSkippedTypeOnly(route, adapter) ==
    Truthy(route, "channelType") /\ adapter.type # route.channelType

\* The two `continue` conditions of the adapter loop.
AdapterSkipped(route, adapter) ==
    \/ Truthy(route, "channelType") /\ adapter.type # route.channelType
    \/ Truthy(route, "channelId") /\ adapter.id # route.channelId

\* The first adapter at or after `from` that the loop does not skip, or 0.
RECURSIVE NextAdapterIndex(_, _, _)
NextAdapterIndex(route, channels, from) ==
    IF from > Len(channels) THEN 0
    ELSE IF AdapterSkipped(route, channels[from])
         THEN NextAdapterIndex(route, channels, from + 1)
         ELSE from

\* The loop of fanOutToChannels from adapter `from` up to its next await.
fanOutToChannelsLoop(pr, from) ==
    LET j == NextAdapterIndex(pr.routes[pr.i], pr.channels, from)
    IN  IF j = 0
        THEN [pr EXCEPT !.pc = "fanOutReturned", !.j = 0]
        ELSE [pr EXCEPT !.pc = "send", !.j = j,
                        !.attempts = Append(@, [rule |-> pr.i, to |-> pr.channels[j],
                                                text |-> pr.input.response])]

\* fanOutToChannels up to its first await.  chOk: getChannelsForSession
\* returns (it throws otherwise, which rejects the promise of this async
\* function).
fanOutToChannels(pr, chOk) ==
    IF ctx # NoCtx /\ ~chOk
    THEN [pr EXCEPT !.pc = "fanOutReturned", !.j = 0,
                    !.fault = "getChannelsForSession"]
    ELSE fanOutToChannelsLoop(
            [pr EXCEPT !.channels = IF ctx # NoCtx
                                    THEN getChannelsForSession(pr.input.session)
                                    ELSE <<>>], 1)

SendSucceededAsRouted(st) == incrementRouted(st)

\* The statement after a fulfilled `await adapter.send(...)`.
SendSucceeded(st) == incrementOutgoingRouted(st)

SendFailedUncounted(st) == st

\* The stats update of the catch block of fanOutToChannels.
SendFailed(st) == incrementErrors(st)

----------------------------------------------------------------------------
(* onOutgoing *)

\* The `continue` condition of the rule loop of onOutgoing.
OutgoingRuleSkipped(route, output) ==
    Truthy(route, "sourceSession") /\ route.sourceSession # output.session

\* The first rule at or after `from` that is not skipped, or 0.
RECURSIVE NextOutgoingIndex(_, _, _)
NextOutgoingIndex(routes, output, from) ==
    IF from > Len(routes) THEN 0
    ELSE IF OutgoingRuleSkipped(routes[from], output)
         THEN NextOutgoingIndex(routes, output, from + 1)
         ELSE from

\* The loop of onOutgoing from rule `from` up to its next await.
onOutgoingLoop(pr, from, chOk) ==
    LET k == NextOutgoingIndex(pr.routes, pr.input, from)
    IN  IF k = 0
        THEN Returned(pr, pr.input.response)
        ELSE fanOutToChannels([pr EXCEPT !.i = k], chOk)

\* onOutgoing up to its first await.
onOutgoing(output, cfgOk, chOk) ==
    LET pr == [IdleProc EXCEPT !.kind = "out", !.input = output]
    IN  IF ctx # NoCtx /\ ~cfgOk
        THEN Threw([pr EXCEPT !.fault = "getConfig"])
        ELSE onOutgoingLoop(
                [pr EXCEPT !.routes = IF ctx # NoCtx /\ Has(getConfig, "outgoingRoutes")
                                      THEN getConfig.outgoingRoutes ELSE <<>>], 1, chOk)

\* The host calls the middleware's onOutgoing with one of `outputs`.
InvokeOutgoingOf(p, outputs) ==
    /\ procs[p].pc = "idle"
    /\ \E output \in outputs, cfgOk \in BOOLEAN, chOk \in BOOLEAN :
          procs' = [procs EXCEPT ![p] = onOutgoing(output, cfgOk, chOk)]
    /\ UNCHANGED <<config, adapters, ctx, stats, logged, probe, rest>>

InvokeOutgoing(p) == InvokeOutgoingOf(p, OutgoingOutputs)

\* Where fanOutToChannels goes after the catch block.
SendRejectedThen(pr) == fanOutToChannelsLoop(pr, pr.j + 1)

\* adapter.send fulfils.
SendResolved(p) ==
    LET pr == procs[p]
    IN  /\ pr.pc = "send"
        /\ stats' = SendSucceeded(stats)
        /\ procs' = [procs EXCEPT ![p] = fanOutToChannelsLoop(TallySent(pr), pr.j + 1)]
        /\ UNCHANGED <<config, adapters, ctx, logged, probe, rest>>

\* adapter.send rejects.
SendRejected(p) ==
    LET pr == procs[p]
    IN  /\ pr.pc = "send"
        /\ logged' = LogError(logged)
        /\ stats' = SendFailed(stats)
        /\ procs' = [procs EXCEPT ![p] = SendRejectedThen(TallyFailed(pr))]
        /\ UNCHANGED <<config, adapters, ctx, probe, rest>>

\* adapter.send rejects and the catch block's ctx.log.error(...) throws: the
\* exception leaves the catch block before incrementErrors() and rejects the
\* promise of fanOutToChannels.
SendRejectedLogThrows(p) ==
    LET pr == procs[p]
    IN  /\ pr.pc = "send"
        /\ ctx # NoCtx
        /\ procs' = [procs EXCEPT ![p] =
                        [pr EXCEPT !.pc = "fanOutReturned", !.fault = "log.error"]]
        /\ UNCHANGED <<config, adapters, ctx, stats, logged, probe, rest>>

\* The promise of fanOutToChannels settles and onOutgoing resumes: a
\* rejection is rethrown by the await, which rejects onOutgoing.
ChannelsReturned(p) ==
    LET pr == procs[p]
    IN  /\ pr.pc = "fanOutReturned"
        /\ pr.kind = "out"
        /\ \E chOk \in BOOLEAN :
              procs' = [procs EXCEPT ![p] =
                          IF pr.fault # "none" THEN Threw(pr)
                          ELSE onOutgoingLoop(pr, pr.i + 1, chOk)]
        /\ UNCHANGED <<config, adapters, ctx, stats, logged, probe, rest>>

----------------------------------------------------------------------------
(* init and shutdown *)

\* The capabilities a host may lack.
OptionalCaps ==
    {"registerUiComponent", "unregisterUiComponent", "registerA2AServer",
     "unregisterExtension", "unregisterConfigSchema", "unregisterMiddleware"}

DefaultUiPort == 7333

NoServer == [listening |-> FALSE, port |-> 0]

\* startUIServer(config.uiPort || 7333)
startUIServer(cfg) ==
    [listening |-> TRUE,
     port |-> IF Has(cfg, "uiPort") /\ cfg.uiPort # 0 THEN cfg.uiPort ELSE DefaultUiPort]

RouterMiddleware == [name |-> "router", handlers |-> {"onIncoming", "onOutgoing"}]

initCallsAssumingUi(caps) ==
    <<"registerConfigSchema", "getConfig", "registerUiComponent", "log.info">>
    \o (IF "registerA2AServer" \in caps THEN <<"registerA2AServer">> ELSE <<>>)
    \o <<"registerMiddleware">>

\* The calls init makes on a host that has `caps`, in order.
initCalls(caps) ==
    <<"registerConfigSchema", "getConfig">>
    \o (IF "registerUiComponent" \in caps
        THEN <<"registerUiComponent", "log.info">> ELSE <<>>)
    \o (IF "registerA2AServer" \in caps THEN <<"registerA2AServer">> ELSE <<>>)
    \o <<"registerMiddleware">>

\* The cleanups init pushes on a host that has `caps`, in order.
initCleanups(caps) ==
    <<"unregisterConfigSchema">>
    \o (IF {"registerUiComponent", "unregisterUiComponent"} \subseteq caps
        THEN <<"unregisterUiComponent">> ELSE <<>>)
    \o (IF {"registerA2AServer", "unregisterExtension"} \subseteq caps
        THEN <<"unregisterExtension">> ELSE <<>>)
    \o <<"unregisterMiddleware">>

\* The first call in `calls` of a capability the host lacks, or 0: calling
\* it throws a TypeError.
FirstAbsent(calls, caps) ==
    IF \E n \in 1 .. Len(calls) : calls[n] \in OptionalCaps \ caps
    THEN CHOOSE n \in 1 .. Len(calls) :
            /\ calls[n] \in OptionalCaps \ caps
            /\ \A m \in 1 .. (n - 1) : calls[m] \notin OptionalCaps \ caps
    ELSE 0

NewHost(caps) == [caps |-> caps, calls |-> <<>>, middleware |-> <<>>]

Loaded == [pc |-> "loaded", config |-> EmptyRec, fault |-> "none"]

\* init(pluginContext).  cfgOk: getConfig returns (it throws otherwise).
PluginInit ==
    /\ life.pc = "loaded"
    /\ ctx' = Host
    /\ \E cfgOk \in BOOLEAN :
          LET calls == initCalls(host.caps)
              bad == FirstAbsent(calls, host.caps)
          IN  IF ~cfgOk
              THEN /\ host' = [host EXCEPT !.calls = @ \o SubSeq(calls, 1, 2)]
                   /\ cleanups' = Append(cleanups, "unregisterConfigSchema")
                   /\ life' = [life EXCEPT !.pc = "failed", !.fault = "getConfig"]
                   /\ UNCHANGED uiServer
              ELSE IF bad # 0
              THEN /\ host' = [host EXCEPT !.calls = @ \o SubSeq(calls, 1, bad)]
                   /\ cleanups' = Append(cleanups, "unregisterConfigSchema")
                   /\ uiServer' = startUIServer(config)
                   /\ life' = [life EXCEPT !.pc = "failed", !.fault = "TypeError",
                                           !.config = config]
              ELSE /\ host' = [host EXCEPT !.calls = @ \o calls,
                                           !.middleware = Append(@, RouterMiddleware)]
                   /\ cleanups' = cleanups \o initCleanups(host.caps)
                   /\ uiServer' = startUIServer(config)
                   /\ life' = [life EXCEPT !.pc = "running", !.config = config]
    /\ UNCHANGED <<config, adapters, stats, logged, procs, probe, now, snap, views>>

\* The state init leaves on a host that has `caps`.
Initialised(caps) ==
    /\ uiServer = startUIServer(config)
    /\ cleanups = initCleanups(caps)
    /\ host = [caps |-> caps, calls |-> initCalls(caps),
               middleware |-> <<RouterMiddleware>>]
    /\ life = [pc |-> "running", config |-> config, fault |-> "none"]

\* The capabilities the cleanups call: each entry is ctx?.f?.(...).
CleanupCalls ==
    IF ctx = NoCtx THEN <<>>
    ELSE SelectSeq(cleanups, LAMBDA f : f \in host.caps)

ServerClosedAndDrained ==
    life.pc = "closing" /\ \A p \in ProcIds : procs[p].pc \in {"idle", "done"}

\* The close callback of the UI server may run.
ServerClosed == life.pc = "closing"

\* The statements of shutdown after the UI server is dealt with.
ShutdownFinish ==
    /\ stats' = resetStats
    /\ snap' = Detached(snap)
    /\ ctx' = NoCtx
    /\ life' = [life EXCEPT !.pc = "stopped"]

\* shutdown() up to its await: the cleanups run, each in a try/catch that
\* logs, and the UI server is asked to close.  Without a UI server there is
\* no await and shutdown runs to its end.
ShutdownBegin ==
    /\ life.pc \in {"running", "failed"}
    /\ \E thrown \in SUBSET (1 .. Len(CleanupCalls)) :
          logged' = logged + Cardinality(thrown)
    /\ host' = [host EXCEPT !.calls = @ \o CleanupCalls
                                \o (IF uiServer.listening THEN <<"log.info">> ELSE <<>>)]
    /\ cleanups' = <<>>
    /\ IF uiServer.listening
       THEN /\ life' = [life EXCEPT !.pc = "closing"]
            /\ UNCHANGED <<stats, snap, ctx>>
       ELSE ShutdownFinish
    /\ UNCHANGED <<config, adapters, procs, probe, now, uiServer, views>>

\* The UI server has closed: shutdown resumes and runs to its end.
ShutdownClosed ==
    /\ ServerClosed
    /\ uiServer' = NoServer
    /\ ShutdownFinish
    /\ UNCHANGED <<config, adapters, logged, procs, probe, now, cleanups, host, views>>

----------------------------------------------------------------------------
(* webmcp-tools.ts *)

NoReport == [via |-> "none"]

\* `list || []` for a rule list of the configuration.
ListOr(cfg, f) == IF Has(cfg, f) THEN cfg[f] ELSE <<>>

\* JavaScript null in a payload.
Null == "<null>"

\* `r.f || "*"` and `r.f || null`
OrStar(r, f) == IF Truthy(r, f) THEN r[f] ELSE "*"

OrNull(r, f) == IF Truthy(r, f) THEN r[f] ELSE Null

\* Array.prototype.join
RECURSIVE Join(_, _)
Join(seq, sep) ==
    IF seq = <<>> THEN ""
    ELSE IF Len(seq) = 1 THEN seq[1]
    ELSE seq[1] \o sep \o Join(Tail(seq), sep)

\* ` [${r.channelType}]` or nothing
TypeSuffix(r) == IF Truthy(r, "channelType") THEN " [" \o r.channelType \o "]" ELSE ""

IncomingSummaryBare(r) ==
    LET joined == Join(TargetsOf(r), ", ")
    IN  OrStar(r, "sourceSession") \o " -> " \o joined \o TypeSuffix(r)

\* The summary template of an incoming rule.
IncomingSummary(r) ==
    LET joined == Join(TargetsOf(r), ", ")
    IN  OrStar(r, "sourceSession") \o " -> "
        \o (IF joined = "" THEN "(none)" ELSE joined)
        \o TypeSuffix(r)

\* The summary template of an outgoing rule.
OutgoingSummary(r) ==
    OrStar(r, "sourceSession") \o " -> channels" \o TypeSuffix(r)
    \o (IF Truthy(r, "channelId") THEN " #" \o r.channelId ELSE "")

buildRouterStatusResponseAlwaysEnabled(cfg, serverRunning) ==
    [enabled |-> TRUE,
     totalRoutes |-> Len(ListOr(cfg, "routes")) + Len(ListOr(cfg, "outgoingRoutes")),
     incoming |-> [count |-> Len(ListOr(cfg, "routes"))],
     outgoing |-> [count |-> Len(ListOr(cfg, "outgoingRoutes"))]]

buildRouterStatusResponse(cfg, serverRunning) ==
    LET incomingRoutes == ListOr(cfg, "routes")
        outgoingRoutes == ListOr(cfg, "outgoingRoutes")
    IN  [enabled |-> serverRunning,
         totalRoutes |-> Len(incomingRoutes) + Len(outgoingRoutes),
         incoming |-> [count |-> Len(incomingRoutes)],
         outgoing |-> [count |-> Len(outgoingRoutes)]]

buildListRoutesResponse(cfg) ==
    LET incomingRoutes == ListOr(cfg, "routes")
        outgoingRoutes == ListOr(cfg, "outgoingRoutes")
    IN  [incoming |->
            [n \in 1 .. Len(incomingRoutes) |->
                LET r == incomingRoutes[n]
                IN  [source |-> OrStar(r, "sourceSession"),
                     targets |-> TargetsOf(r),
                     channelType |-> OrNull(r, "channelType"),
                     channelId |-> OrNull(r, "channelId"),
                     summary |-> IncomingSummary(r)]],
         outgoing |->
            [n \in 1 .. Len(outgoingRoutes) |->
                LET r == outgoingRoutes[n]
                IN  [source |-> OrStar(r, "sourceSession"),
                     channelType |-> OrNull(r, "channelType"),
                     channelId |-> OrNull(r, "channelId"),
                     summary |-> OutgoingSummary(r)]],
         totalRules |-> Len(incomingRoutes) + Len(outgoingRoutes)]

formatUptimeHoursUnwrapped(ms) ==
    LET seconds == ms \div 1000
        minutes == seconds \div 60
        hours == minutes \div 60
        days == hours \div 24
    IN  IF days > 0 THEN ToString(days) \o "d " \o ToString(hours) \o "h"
        ELSE IF hours > 0 THEN ToString(hours) \o "h " \o ToString(minutes % 60) \o "m"
        ELSE IF minutes > 0 THEN ToString(minutes) \o "m " \o ToString(seconds % 60) \o "s"
        ELSE ToString(seconds) \o "s"

formatUptime(ms) ==
    LET seconds == ms \div 1000
        minutes == seconds \div 60
        hours == minutes \div 60
        days == hours \div 24
    IN  IF days > 0 THEN ToString(days) \o "d " \o ToString(hours % 24) \o "h"
        ELSE IF hours > 0 THEN ToString(hours) \o "h " \o ToString(minutes % 60) \o "m"
        ELSE IF minutes > 0 THEN ToString(minutes) \o "m " \o ToString(seconds % 60) \o "s"
        ELSE ToString(seconds) \o "s"

\* new Date(t).toISOString(): the instant t as text.
toISOString(t) == "T+" \o ToString(t) \o "ms"

\* Object.entries(hits).map(([route, count]) => ({route, count})).  The
\* ledger is modelled without the insertion order of its keys; the entries
\* come in a fixed order.
RECURSIVE RouteHitEntries(_)
RouteHitEntries(hits) ==
    IF DOMAIN hits = {} THEN <<>>
    ELSE LET k == CHOOSE x \in DOMAIN hits : TRUE
         IN  <<[route |-> k, count |-> hits[k]]>>
             \o RouteHitEntries([x \in DOMAIN hits \ {k} |-> hits[x]])

buildRoutingStatsResponseRoutedOnly(st) ==
    [messages |-> [routed |-> st.messagesRouted,
                   outgoingRouted |-> st.outgoingRouted,
                   total |-> st.messagesRouted,
                   errors |-> st.errors],
     routeHits |-> RouteHitEntries(st.routeHits),
     uptime |-> [ms |-> now - st.startedAt,
                 seconds |-> (now - st.startedAt) \div 1000,
                 human |-> formatUptime(now - st.startedAt),
                 startedAt |-> toISOString(st.startedAt)]]

buildRoutingStatsResponse(st) ==
    LET uptimeMs == now - st.startedAt
    IN  [messages |-> [routed |-> st.messagesRouted,
                       outgoingRouted |-> st.outgoingRouted,
                       total |-> st.messagesRouted + st.outgoingRouted,
                       errors |-> st.errors],
         routeHits |-> RouteHitEntries(st.routeHits),
         uptime |-> [ms |-> uptimeMs,
                     seconds |-> uptimeMs \div 1000,
                     human |-> formatUptime(uptimeMs),
                     startedAt |-> toISOString(st.startedAt)]]

----------------------------------------------------------------------------
(* The request handler of startUIServer, and the router.stats tool *)

ApiUrls == {"/api/webmcp/status", "/api/webmcp/routes", "/api/webmcp/stats"}

StaticUrls == {"/", "/ui.js", "/%"}

\* What a request ends in: the response written, or an exception that
\* leaves the handler.
Responded(code, body) == [statusCode |-> code, body |-> body, escaped |-> FALSE]

Escaped == [statusCode |-> 0, body |-> EmptyRec, escaped |-> TRUE]

InternalError == Responded(500, [error |-> "Internal server error"])

\* `ctx?.getConfig() || { routes: [], outgoingRoutes: [] }`
ConfigOrDefault ==
    IF ctx # NoCtx THEN getConfig ELSE [routes |-> <<>>, outgoingRoutes |-> <<>>]

ApiResponseUncaught(url, cfgOk) ==
    IF url = "/api/webmcp/stats"
    THEN Responded(200, buildRoutingStatsResponse(getStats(stats).value))
    ELSE IF ctx # NoCtx /\ ~cfgOk
    THEN Escaped
    ELSE IF url = "/api/webmcp/status"
    THEN Responded(200, buildRouterStatusResponse(ConfigOrDefault, uiServer # NoServer))
    ELSE Responded(200, buildListRoutesResponse(ConfigOrDefault))

\* The three API branches, each a try/catch around the payload.  cfgOk:
\* getConfig returns (it throws otherwise).
ApiResponse(url, cfgOk) ==
    IF url = "/api/webmcp/stats"
    THEN Responded(200, buildRoutingStatsResponse(getStats(stats).value))
    ELSE IF ctx # NoCtx /\ ~cfgOk
    THEN InternalError
    ELSE IF url = "/api/webmcp/status"
    THEN Responded(200, buildRouterStatusResponse(ConfigOrDefault, uiServer # NoServer))
    ELSE Responded(200, buildListRoutesResponse(ConfigOrDefault))

\* Static file serving.  dirOk: ctx.getPluginDir returns; file: what
\* createReadStream does.
StaticResponse(url, dirOk, file) ==
    IF ctx = NoCtx THEN Responded(503, [text |-> "Service unavailable"])
    ELSE IF url = "/%" THEN Responded(400, [text |-> "Bad request"])
    ELSE IF ~dirOk THEN Escaped
    ELSE IF file = "throws" THEN Responded(500, [text |-> "Error"])
    ELSE IF file = "missing" THEN Responded(404, [text |-> "Not found"])
    ELSE Responded(200, [file |-> IF url = "/" THEN "/ui.js" ELSE url])

\* The fault the request met, if any.
RequestFault(url, cfgOk, dirOk) ==
    IF url \in ApiUrls
    THEN (IF url # "/api/webmcp/stats" /\ ctx # NoCtx /\ ~cfgOk THEN "getConfig" ELSE "none")
    ELSE (IF ctx # NoCtx /\ url # "/%" /\ ~dirOk THEN "getPluginDir" ELSE "none")

RequestUrls == ApiUrls \cup StaticUrls

\* The UI server handles one request for one of `urls`.
HttpRequestOf(urls) ==
    /\ uiServer # NoServer
    /\ \E url \in urls, cfgOk \in BOOLEAN, dirOk \in BOOLEAN,
          file \in {"ok", "missing", "throws"} :
          report' = [via |-> "http", what |-> url,
                     fault |-> RequestFault(url, cfgOk, dirOk),
                     response |-> IF url \in ApiUrls THEN ApiResponse(url, cfgOk)
                                  ELSE StaticResponse(url, dirOk, file)]
    /\ UNCHANGED <<config, adapters, ctx, stats, logged, procs, probe, now, snap,
                   lifecycle, ui>>

HttpRequest == HttpRequestOf(RequestUrls)

\* The handler of the router.stats tool registered with registerA2AServer.
CallStatsTool ==
    /\ report' = [via |-> "a2a", what |-> "router.stats",
                  response |-> Responded(200, buildRoutingStatsResponse(getStats(stats).value))]
    /\ UNCHANGED <<config, adapters, ctx, stats, logged, procs, probe, now, snap,
                   lifecycle, ui>>

\* The reporters called directly.
CallBuildRouterStatus ==
    /\ \E serverRunning \in BOOLEAN :
          report' = [via |-> "call", what |-> "buildRouterStatusResponse",
                     serverRunning |-> serverRunning,
                     response |-> Responded(200, buildRouterStatusResponse(config, serverRunning))]
    /\ UNCHANGED <<config, adapters, ctx, stats, logged, procs, probe, now, snap,
                   lifecycle, ui>>

CallBuildListRoutes ==
    /\ report' = [via |-> "call", what |-> "buildListRoutesResponse",
                  response |-> Responded(200, buildListRoutesResponse(config))]
    /\ UNCHANGED <<config, adapters, ctx, stats, logged, procs, probe, now, snap,
                   lifecycle, ui>>

----------------------------------------------------------------------------
(* ui.ts *)

NoPanel == [pc |-> "unmounted"]

\* Text typed into an input: a sequence of characters.
TextOf(chars) == Join(chars, "")

Blank == " "

\* String.prototype.split(",")
RECURSIVE Split(_)
Split(chars) ==
    IF \A n \in 1 .. Len(chars) : chars[n] # ","
    THEN <<chars>>
    ELSE LET i == CHOOSE n \in 1 .. Len(chars) :
                    chars[n] = "," /\ \A m \in 1 .. n - 1 : chars[m] # ","
         IN  <<SubSeq(chars, 1, i - 1)>> \o Split(SubSeq(chars, i + 1, Len(chars)))

\* String.prototype.trim
RECURSIVE Trim(_)
Trim(chars) ==
    IF chars = <<>> THEN chars
    ELSE IF Head(chars) = Blank THEN Trim(Tail(chars))
    ELSE IF chars[Len(chars)] = Blank THEN Trim(SubSeq(chars, 1, Len(chars) - 1))
    ELSE chars

\* newTargets().split(",").map((s) => s.trim()).filter(Boolean)
ParseTargets(chars) ==
    LET parts == Split(chars)
        trimmed == [n \in 1 .. Len(parts) |-> Trim(parts[n])]
        kept == SelectSeq(trimmed, LAMBDA part : part # <<>>)
    IN  [n \in 1 .. Len(kept) |-> TextOf(kept[n])]

SourceTexts == {<<>>, <<"a">>}
TargetTexts == {<<>>, <<"b", ",", Blank, "c">>, <<",">>}
ChannelTexts == {<<>>, <<"x">>}

\* What api.getConfig() resolves to, as plugins.data.router.
StoredRouterConfigs ==
    { EmptyRec,
      [routes |-> <<[sourceSession |-> "a", targetSessions |-> <<"b">>]>>],
      [routes |-> <<[sourceSession |-> "b", targetSessions |-> <<"c">>]>>,
       outgoingRoutes |-> <<[sourceSession |-> "a", targetSessions |-> <<>>]>>] }

\* The panel as RouterPluginUI(props) returns it: the signals at their initial
\* values, the onMount callback not yet run, saveConfig never called.
RouterPluginUI ==
    [pc |-> "mounting", routes |-> <<>>, outgoingRoutes |-> <<>>,
     newSource |-> <<>>, newTargets |-> <<>>, newChannelType |-> <<>>,
     saves |-> <<>>, pending |-> <<>>, adds |-> 0]

PanelUnchanged ==
    UNCHANGED <<config, adapters, ctx, stats, logged, procs, probe, now, snap,
                lifecycle, report>>

\* The onMount callback, after api.getConfig() resolved.
MountLoaded ==
    /\ ui.pc = "mounting"
    /\ \E routerConfig \in StoredRouterConfigs :
          ui' = [ui EXCEPT !.pc = "mounted",
                           !.routes = ListOr(routerConfig, "routes"),
                           !.outgoingRoutes = ListOr(routerConfig, "outgoingRoutes")]
    /\ PanelUnchanged

\* The onMount callback, api.getConfig() rejected.
MountRejected ==
    /\ ui.pc = "mounting"
    /\ ui' = [ui EXCEPT !.pc = "mountFailed"]
    /\ PanelUnchanged

\* The input listeners.
setNewSource ==
    /\ ui.pc # "unmounted"
    /\ \E value \in SourceTexts : ui' = [ui EXCEPT !.newSource = value]
    /\ PanelUnchanged

setNewTargets ==
    /\ ui.pc # "unmounted"
    /\ \E value \in TargetTexts : ui' = [ui EXCEPT !.newTargets = value]
    /\ PanelUnchanged

setNewChannelType ==
    /\ ui.pc # "unmounted"
    /\ \E value \in ChannelTexts : ui' = [ui EXCEPT !.newChannelType = value]
    /\ PanelUnchanged

AddRouteIgnoredWithoutSource(panel) == panel.newSource = <<>>

\* if (!newSource() || !newTargets()) return;
AddRouteIgnored(panel) == panel.newSource = <<>> \/ panel.newTargets = <<>>

newRoute(panel) ==
    [sourceSession |-> TextOf(panel.newSource),
     targetSessions |-> ParseTargets(panel.newTargets)]
    @@ (IF panel.newChannelType # <<>>
        THEN [channelType |-> TextOf(panel.newChannelType)] ELSE EmptyRec)

\* A handler calls props.saveConfig and waits for it.
Saving(panel, op, updatedRoutes) ==
    [panel EXCEPT !.saves = Append(@, [routes |-> updatedRoutes,
                                       outgoingRoutes |-> panel.outgoingRoutes]),
                  !.pending = Append(@, [op |-> op, updatedRoutes |-> updatedRoutes])]

\* A click on Add Route: handleAddRoute up to its await.
handleAddRoute ==
    /\ ui.pc # "unmounted"
    /\ ui.adds < MaxCalls
    /\ Len(ui.saves) < MaxSaves
    /\ LET clicked == [ui EXCEPT !.adds = @ + 1]
       IN  ui' = IF AddRouteIgnored(ui) THEN clicked
                 ELSE Saving(clicked, "add", Append(ui.routes, newRoute(ui)))
    /\ PanelUnchanged

\* routes().filter((_, i) => i !== index)
Without(seq, n) == SubSeq(seq, 1, n - 1) \o SubSeq(seq, n + 1, Len(seq))

\* A click on Delete of the rule at `index`: handleDeleteRoute up to its await.
handleDeleteRoute ==
    /\ ui.pc # "unmounted"
    /\ Len(ui.saves) < MaxSaves
    /\ \E index \in 1 .. Len(ui.routes) :
          ui' = Saving(ui, "delete",
                       Without(ui.routes, index))
    /\ PanelUnchanged

\* props.saveConfig resolved: the handler that awaited it runs to its end.
SaveResolved ==
    /\ ui.pc # "unmounted"
    /\ \E n \in 1 .. Len(ui.pending) :
          LET call == ui.pending[n]
              set == [ui EXCEPT !.pending = Without(@, n),
                                !.routes = call.updatedRoutes]
          IN  ui' = IF call.op = "add"
                    THEN [set EXCEPT !.newSource = <<>>, !.newTargets = <<>>,
                                     !.newChannelType = <<>>]
                    ELSE set
    /\ PanelUnchanged

\* props.saveConfig rejected: the handler ends with that rejection.
SaveRejected ==
    /\ ui.pc # "unmounted"
    /\ \E n \in 1 .. Len(ui.pending) :
          ui' = [ui EXCEPT !.pending = Without(@, n)]
    /\ PanelUnchanged

----------------------------------------------------------------------------
(* A direct call of matchesRoute *)

NoProbe == [called |-> FALSE, result |-> FALSE]

Probes ==
    {[route |-> r, input |-> i, called |-> FALSE, result |-> FALSE] :
        r \in RouteConstraints, i \in IncomingInputs}

CallMatchesRoute ==
    /\ Has(probe, "route")
    /\ ~probe.called
    /\ probe' = [probe EXCEPT !.called = TRUE,
                              !.result = matchesRoute(probe.route, probe.input)]
    /\ UNCHANGED <<config, adapters, ctx, stats, logged, procs, rest>>

----------------------------------------------------------------------------
(* Specifications *)

\* One dispatch call, in either direction, after init.
Init ==
    /\ config \in Configs
    /\ adapters \in (IF Has(config, "outgoingRoutes") THEN HostRegistries ELSE {HostAdapters})
    /\ ctx = Host
    /\ stats = FreshStats(0)
    /\ logged = 0
    /\ procs = [p \in ProcIds |-> IdleProc]
    /\ probe = NoProbe
    /\ now = 0
    /\ snap = NoSnap
    /\ report = NoReport
    /\ ui = NoPanel
    /\ Initialised(OptionalCaps)

Next ==
    \/ InvokeIncoming(1)
    \/ InjectResolved(1)
    \/ InjectRejected(1)
    \/ FanOutReturned(1)
    \/ InvokeOutgoing(1)
    \/ SendResolved(1)
    \/ SendRejected(1)
    \/ ChannelsReturned(1)

Spec == Init /\ [][Next]_vars

\* matchesRoute called on every rule and message.
InitMatch ==
    /\ config = EmptyRec
    /\ adapters = HostAdapters
    /\ ctx = Host
    /\ stats = FreshStats(0)
    /\ logged = 0
    /\ procs = [p \in ProcIds |-> IdleProc]
    /\ probe \in Probes
    /\ now = 0
    /\ snap = NoSnap
    /\ report = NoReport
    /\ ui = NoPanel
    /\ Initialised(OptionalCaps)

SpecMatch == InitMatch /\ [][CallMatchesRoute]_vars

\* Dispatch calls that overlap: the host calls the middleware again while
\* earlier calls are suspended in a delivery.
BusyConfigs ==
    { [routes |-> << [targetSessions |-> <<"b", "c">>],
                     [sourceSession |-> "a", targetSessions |-> <<"b">>] >>,
       outgoingRoutes |-> << [channelType |-> "x"] >>] }

BusyInputs ==
    { [session |-> "a", message |-> "hi"],
      [session |-> "b", message |-> "yo", channel |-> [type |-> "x", id |-> "1"]] }

BusyOutputs == { [session |-> "a", response |-> "hi"] }

InitBusy ==
    /\ config \in BusyConfigs
    /\ adapters = HostAdapters
    /\ ctx = Host
    /\ stats = FreshStats(0)
    /\ logged = 0
    /\ procs = [p \in ProcIds |-> IdleProc]
    /\ probe = NoProbe
    /\ now = 0
    /\ snap = NoSnap
    /\ report = NoReport
    /\ ui = NoPanel
    /\ Initialised(OptionalCaps)

DeliverInTurn(p) ==
    /\ \A q \in 1 .. (p - 1) : ~Suspended(procs[q])
    /\ \/ InjectResolved(p)
       \/ InjectRejected(p)
       \/ FanOutReturned(p)
       \/ SendResolved(p)
       \/ SendRejected(p)
       \/ ChannelsReturned(p)

\* A host call of dispatch call p returns and the call resumes.
Deliver(p) ==
    \/ InjectResolved(p)
    \/ InjectRejected(p)
    \/ FanOutReturned(p)
    \/ SendResolved(p)
    \/ SendRejected(p)
    \/ ChannelsReturned(p)

NextBusy ==
    \E p \in ProcIds :
        \/ InvokeIncomingOf(p, BusyInputs)
        \/ InvokeOutgoingOf(p, BusyOutputs)
        \/ Deliver(p)

SpecBusy == InitBusy /\ [][NextBusy]_vars

\* The call whose delivery may never return.
Hung == 1

\* Overlapping dispatch calls where every host call returns, except those
\* of the call Hung, which may never do.
SpecHang ==
    /\ InitBusy
    /\ [][NextBusy]_vars
    /\ \A p \in ProcIds \ {Hung} : WF_vars(Deliver(p))

----------------------------------------------------------------------------
(* What the claims speak of *)

IsPrefix(s, t) == Len(s) <= Len(t) /\ SubSeq(t, 1, Len(s)) = s

Text(pr) == IF pr.kind = "in" THEN pr.input.message ELSE pr.input.response

\* A dispatch call none of whose host capabilities (getConfig,
\* getChannelsForSession) was unavailable.
Served(pr, kind) == pr.kind = kind /\ pr.fault = "none"

Finished(pr, kind) == Served(pr, kind) /\ pr.pc = "done"

\* The injects a rule owes a message: its non-empty targets other than the
\* message's session, in listed order.
InjectsOfRule(route, input, i) ==
    LET owed == SelectSeq(TargetsOf(route),
                          LAMBDA t : t # "" /\ t # input.session)
    IN  [n \in 1 .. Len(owed) |->
            [rule |-> i, to |-> owed[n], text |-> input.message]]

\* The injects a rule list owes a message: those of its matching rules, in
\* declared order.
RECURSIVE InjectsFrom(_, _, _)
InjectsFrom(routes, input, i) ==
    IF i > Len(routes) THEN <<>>
    ELSE (IF matchesRoute(routes[i], input)
          THEN InjectsOfRule(routes[i], input, i) ELSE <<>>)
         \o InjectsFrom(routes, input, i + 1)

ExpectedInjects(pr) == InjectsFrom(pr.routes, pr.input, 1)

AttemptsOfRule(pr, i) == {n \in 1 .. Len(pr.attempts) : pr.attempts[n].rule = i}

Settled(st) == st.messagesRouted + st.outgoingRouted + st.errors

----------------------------------------------------------------------------
(* C1 *)

C1_InOrder ==
    \A p \in ProcIds :
        Served(procs[p], "in") =>
            /\ IsPrefix(procs[p].attempts, ExpectedInjects(procs[p]))
            /\ procs[p].pc = "done" => procs[p].attempts = ExpectedInjects(procs[p])

C1_OneAtATime ==
    \A p \in ProcIds :
        LET before == procs[p].attempts
            after == procs'[p].attempts
        IN  procs'[p].kind = "in" =>
                /\ Len(after) <= Len(before) + 1
                /\ Len(after) = Len(before) + 1 =>
                      /\ procs'[p].pc = "inject"
                      /\ procs[p].pc = "inject" => Settled(stats') = Settled(stats) + 1

\* C1: one onIncoming call attempts an inject for every eligible target of
\* every matching rule, rules in declared order and targets in listed order,
\* and a new inject is started only once the pending one has settled.
C1_AllMatchingRulesInOrder == []C1_InOrder /\ [][C1_OneAtATime]_vars

C1_Witness ==
    \E p \in ProcIds :
        /\ Finished(procs[p], "in")
        /\ Cardinality(AttemptsOfRule(procs[p], 1)) >= 2
        /\ Cardinality(AttemptsOfRule(procs[p], 2)) >= 1

----------------------------------------------------------------------------
(* C2 *)

C2_FailureStep ==
    \A p \in ProcIds :
        InjectRejected(p) =>
            /\ stats' = [stats EXCEPT !.errors = @ + 1]
            /\ procs'[p].result # "threw"
            /\ procs'[p].pc \in {"inject", "fanOutReturned"}
            /\ IsPrefix(procs'[p].attempts, ExpectedInjects(procs[p]))
            /\ procs'[p].pc = "fanOutReturned" =>
                  Cardinality(AttemptsOfRule(procs'[p], procs[p].i))
                    = Len(InjectsOfRule(procs[p].routes[procs[p].i],
                                        procs[p].input, procs[p].i))

C2_AllStillAttempted ==
    \A p \in ProcIds :
        Finished(procs[p], "in") /\ stats.errors > 0 =>
            Len(procs[p].attempts) = Len(ExpectedInjects(procs[p]))

\* C2: a failed inject adds exactly one to errors and changes nothing else of
\* the stats, and the remaining targets of the rule and the later matching
\* rules are still attempted.
C2_FailureIsolated == []C2_AllStillAttempted /\ [][C2_FailureStep]_vars

C2_Witness ==
    \E p \in ProcIds :
        /\ Finished(procs[p], "in")
        /\ stats.errors >= 1
        /\ stats.messagesRouted >= 1
        /\ Len(procs[p].attempts) >= 3
        /\ Cardinality(AttemptsOfRule(procs[p], 2)) >= 1

----------------------------------------------------------------------------
(* C3 *)

\* C3: whatever deliveries succeed or fail, onIncoming returns input.message
\* and onOutgoing returns output.response; no delivery failure rejects the call.
C3_ReturnsOriginalText ==
    \A p \in ProcIds :
        procs[p].pc = "done" /\ procs[p].fault = "none" =>
            /\ procs[p].result = "returned"
            /\ procs[p].ret = Text(procs[p])

C3_Witness ==
    \E p \in ProcIds :
        /\ Finished(procs[p], "in")
        /\ procs[p].ret = "yo"
        /\ stats.errors >= 2
        /\ stats.messagesRouted >= 1

----------------------------------------------------------------------------
(* C4 *)

\* C4: when getConfig or getChannelsForSession is unavailable, the dispatch
\* call still returns the original text and the fault is logged and counted
\* as a delivery failure.
C4_CapabilityFaultDegrades ==
    \A p \in ProcIds :
        procs[p].pc = "done" /\ procs[p].fault # "none" =>
            /\ procs[p].result = "returned"
            /\ procs[p].ret = Text(procs[p])
            /\ stats.errors >= 1
            /\ logged >= 1

----------------------------------------------------------------------------
(* C5 *)

\* C5: inject is never called with the message's own session as target, and
\* no route hit from a session to itself is recorded.
C5_NoSelfRouting ==
    /\ \A p \in ProcIds :
          procs[p].kind = "in" =>
              \A n \in 1 .. Len(procs[p].attempts) :
                  procs[p].attempts[n].to # procs[p].input.session
    /\ \A s \in SessionIds \cup TargetNames :
          RouteKey(s, s) \notin DOMAIN stats.routeHits

\* A wildcard rule that lists the message's session among its targets has
\* been fanned out and another of its targets was delivered.
C5_Witness ==
    \E p \in ProcIds :
        /\ Finished(procs[p], "in")
        /\ \E i \in 1 .. Len(procs[p].routes) :
              /\ ~Has(procs[p].routes[i], "sourceSession")
              /\ \E j \in 1 .. Len(TargetsOf(procs[p].routes[i])) :
                    TargetsOf(procs[p].routes[i])[j] = procs[p].input.session
              /\ AttemptsOfRule(procs[p], i) # {}
        /\ stats.messagesRouted >= 1

----------------------------------------------------------------------------
(* C6 *)

OwedTargets(route, input) ==
    {j \in 1 .. Len(TargetsOf(route)) :
        TargetsOf(route)[j] # "" /\ TargetsOf(route)[j] # input.session}

\* C6: inject is never called with an empty target; a matched rule gets as
\* many injects as it has non-empty targets other than the message's session;
\* and a skipped entry is counted neither as a delivery nor as an error.
C6_BlankTargetsSkipped ==
    \A p \in ProcIds :
        procs[p].kind = "in" =>
            /\ \A n \in 1 .. Len(procs[p].attempts) : procs[p].attempts[n].to # ""
            /\ Finished(procs[p], "in") =>
                  /\ \A i \in 1 .. Len(procs[p].routes) :
                        matchesRoute(procs[p].routes[i], procs[p].input) =>
                            Cardinality(AttemptsOfRule(procs[p], i))
                              = Cardinality(OwedTargets(procs[p].routes[i], procs[p].input))
                  /\ Settled(stats) = Len(procs[p].attempts)

\* A matched rule with a blank entry before a real target has been fanned out.
C6_Witness ==
    \E p \in ProcIds :
        /\ Finished(procs[p], "in")
        /\ \E i \in 1 .. Len(procs[p].routes) :
              /\ matchesRoute(procs[p].routes[i], procs[p].input)
              /\ Len(TargetsOf(procs[p].routes[i])) >= 2
              /\ TargetsOf(procs[p].routes[i])[1] = ""
              /\ Cardinality(AttemptsOfRule(procs[p], i)) = 1
        /\ stats.messagesRouted = 1

----------------------------------------------------------------------------
(* C7 *)

\* Two readings of "the rule has the field": the field is there, or it is
\* there and not the empty string.
IsSet(exact, r, f) == IF exact THEN Has(r, f) ELSE Truthy(r, f)

FieldsAgree(exact, route, input) ==
    /\ IsSet(exact, route, "sourceSession") => route.sourceSession = input.session
    /\ IsSet(exact, route, "channelType") =>
          Has(input, "channel") /\ route.channelType = input.channel.type
    /\ IsSet(exact, route, "channelId") =>
          Has(input, "channel") /\ route.channelId = input.channel.id

\* C7 as stated: matchesRoute is true exactly when every field present on the
\* rule equals the message's value.
C7_MatchesIffPresentFieldsEqual ==
    probe.called => (probe.result <=> FieldsAgree(TRUE, probe.route, probe.input))

\* C7: matchesRoute is true exactly when every field that is present and not
\* the empty string equals the message's value (so a rule without fields
\* matches every message), and the call leaves the stats alone.
C7_MatchesIffNonEmptyFieldsEqual ==
    probe.called =>
        /\ probe.result <=> FieldsAgree(FALSE, probe.route, probe.input)
        /\ probe.route = EmptyRec => probe.result
        /\ stats = FreshStats(0)

\* Called with a rule that sets all three fields, on a message that agrees
\* with two of them.
C7_Witness ==
    /\ probe.called
    /\ ~probe.result
    /\ Truthy(probe.route, "sourceSession")
    /\ Truthy(probe.route, "channelType")
    /\ Truthy(probe.route, "channelId")
    /\ Has(probe.input, "channel")
    /\ probe.route.sourceSession = probe.input.session
    /\ probe.route.channelType = probe.input.channel.type

----------------------------------------------------------------------------
(* C8 *)

NoDeliveryWithoutChannel(exact) ==
    \A p \in ProcIds :
        Served(procs[p], "in") /\ ~Has(procs[p].input, "channel") =>
            \A i \in 1 .. Len(procs[p].routes) :
                \/ IsSet(exact, procs[p].routes[i], "channelType")
                \/ IsSet(exact, procs[p].routes[i], "channelId")
                => /\ ~matchesRoute(procs[p].routes[i], procs[p].input)
                   /\ AttemptsOfRule(procs[p], i) = {}

\* C8 as stated: a rule with channelType or channelId set never matches a
\* message without a channel, and onIncoming delivers nothing for it.
C8_SetChannelFieldNeedsChannel == NoDeliveryWithoutChannel(TRUE)

\* C8: a rule with a non-empty channelType or channelId never matches a
\* message without a channel, and onIncoming delivers nothing for it.
C8_NonEmptyChannelFieldNeedsChannel == NoDeliveryWithoutChannel(FALSE)

\* A message without a channel went past a channel-bound rule that had
\* targets to deliver to, and was delivered by another rule.
C8_Witness ==
    \E p \in ProcIds :
        /\ Finished(procs[p], "in")
        /\ ~Has(procs[p].input, "channel")
        /\ \E i \in 1 .. Len(procs[p].routes) :
              /\ Truthy(procs[p].routes[i], "channelType")
              /\ OwedTargets(procs[p].routes[i], procs[p].input) # {}
              /\ AttemptsOfRule(procs[p], i) = {}
        /\ procs[p].attempts # <<>>

----------------------------------------------------------------------------
(* C9 *)

BoundAdapters(session) == SelectSeq(adapters, LAMBDA a : a.session = session)

SendsOfRule(exact, route, output, i) ==
    LET owed == SelectSeq(BoundAdapters(output.session),
                    LAMBDA a :
                        /\ IsSet(exact, route, "channelType") => a.type = route.channelType
                        /\ IsSet(exact, route, "channelId") => a.id = route.channelId)
    IN  [n \in 1 .. Len(owed) |->
            [rule |-> i, to |-> owed[n], text |-> output.response]]

RECURSIVE SendsFrom(_, _, _, _)
SendsFrom(exact, routes, output, i) ==
    IF i > Len(routes) THEN <<>>
    ELSE (IF /\ IsSet(exact, routes[i], "sourceSession")
             /\ routes[i].sourceSession # output.session
          THEN <<>> ELSE SendsOfRule(exact, routes[i], output, i))
         \o SendsFrom(exact, routes, output, i + 1)

SendsAsExpected(exact) ==
    \A p \in ProcIds :
        Served(procs[p], "out") =>
            LET expected == SendsFrom(exact, procs[p].routes, procs[p].input, 1)
            IN  /\ IsPrefix(procs[p].attempts, expected)
                /\ procs[p].pc = "done" => procs[p].attempts = expected

\* C9 as stated: an outgoing rule is skipped exactly when it has a
\* sourceSession other than output.session, and a surviving rule sends
\* output.response to exactly the session's adapters that satisfy the
\* channelType and channelId it has, in adapter-list order.
C9_SendsToAdaptersOfSetFields == SendsAsExpected(TRUE)

\* C9: the same with "has" read as "has, and not as the empty string".
C9_SendsToAdaptersOfNonEmptyFields == SendsAsExpected(FALSE)

\* One rule was skipped for its sourceSession and another sent to some, not
\* all, of the session's adapters.
C9_Witness ==
    \E p \in ProcIds :
        /\ Finished(procs[p], "out")
        /\ \E k \in 1 .. Len(procs[p].routes) :
              /\ Truthy(procs[p].routes[k], "sourceSession")
              /\ procs[p].routes[k].sourceSession # procs[p].input.session
        /\ \E i \in 1 .. Len(procs[p].routes) :
              /\ Truthy(procs[p].routes[i], "channelId")
              /\ AttemptsOfRule(procs[p], i) # {}
              /\ Cardinality(AttemptsOfRule(procs[p], i))
                    < Len(BoundAdapters(procs[p].input.session))

----------------------------------------------------------------------------
(* C10 *)

LaterAdapters(pr) ==
    {k \in (pr.j + 1) .. Len(pr.channels) :
        ~AdapterSkipped(pr.routes[pr.i], pr.channels[k])}

C10_SendStep ==
    \A p \in ProcIds :
        /\ SendResolved(p) => stats' = [stats EXCEPT !.outgoingRouted = @ + 1]
        /\ SendRejected(p) =>
              /\ stats' = [stats EXCEPT !.errors = @ + 1]
              /\ procs'[p].result # "threw"
              /\ IF LaterAdapters(procs[p]) = {}
                 THEN procs'[p].pc = "fanOutReturned"
                 ELSE /\ procs'[p].pc = "send"
                      /\ procs'[p].j \in LaterAdapters(procs[p])
                      /\ \A k \in LaterAdapters(procs[p]) : procs'[p].j <= k
                      /\ Len(procs'[p].attempts) = Len(procs[p].attempts) + 1

C10_AllStillSent ==
    \A p \in ProcIds :
        Finished(procs[p], "out") =>
            /\ Len(procs[p].attempts)
                  = Len(SendsFrom(FALSE, procs[p].routes, procs[p].input, 1))
            /\ stats.outgoingRouted + stats.errors = Len(procs[p].attempts)
            /\ stats.messagesRouted = 0

\* C10: a fulfilled send adds exactly one to outgoingRouted, a rejected send
\* exactly one to errors, and after a rejected send the remaining adapters of
\* the rule and the remaining outgoing rules are still served.
C10_SendsCounted == []C10_AllStillSent /\ [][C10_SendStep]_vars

\* Sends of two rules, some fulfilled and some rejected.
C10_Witness ==
    \E p \in ProcIds :
        /\ Finished(procs[p], "out")
        /\ stats.errors >= 1
        /\ stats.outgoingRouted >= 1
        /\ AttemptsOfRule(procs[p], 1) # {}
        /\ AttemptsOfRule(procs[p], 2) # {}
        /\ procs[p].attempts[1].rule = 1
        /\ Len(procs[p].attempts) >= 4

----------------------------------------------------------------------------
(* stats.ts called directly, in any order *)

RouteHitsTotal(st) == SumOver(st.routeHits, DOMAIN st.routeHits)

Recorded(st) == st.messagesRouted + st.outgoingRouted + st.errors + RouteHitsTotal(st)

RecorderKeys == {<<"a", "b">>}

Tick ==
    /\ now < MaxCalls
    /\ now' = now + 1
    /\ UNCHANGED <<config, adapters, ctx, stats, logged, procs, probe, snap, lifecycle, views>>

\* One call of a recorder function, recordRouteHit with a pair of `keys`.
CallRecorderOf(keys) ==
    /\ Recorded(stats) < MaxCalls
    /\ \/ stats' = incrementRouted(stats)
       \/ stats' = incrementOutgoingRouted(stats)
       \/ stats' = incrementErrors(stats)
       \/ \E k \in keys : stats' = recordRouteHit(stats, k[1], k[2])
    /\ UNCHANGED <<config, adapters, ctx, logged, procs, probe, rest>>

CallRecorder == CallRecorderOf(RecorderKeys)

CallResetStats ==
    /\ stats' = resetStats
    /\ snap' = Detached(snap)
    /\ UNCHANGED <<config, adapters, ctx, logged, procs, probe, now, lifecycle, views>>

CallGetStats ==
    /\ snap' = getStats(stats)
    /\ UNCHANGED <<config, adapters, ctx, stats, logged, procs, probe, now, lifecycle, views>>

\* The caller assigns to a counter of the value it was returned.
WriteSnapshotField ==
    /\ snap.taken
    /\ snap.value.messagesRouted # 9
    /\ snap' = [snap EXCEPT !.value.messagesRouted = 9]
    /\ UNCHANGED <<config, adapters, ctx, stats, logged, procs, probe, now, lifecycle, views>>

\* The caller adds, changes or deletes an entry of the routeHits it was
\* returned: the write lands in the object that routeHits is.
WriteSnapshotRouteHits ==
    /\ snap.taken
    /\ \E k \in RecorderKeys :
          LET key == RouteKey(k[1], k[2])
              old == SnapshotView.routeHits
              put == [x \in DOMAIN old \cup {key} |-> IF x = key THEN 9 ELSE old[x]]
              del == [x \in DOMAIN old \ {key} |-> old[x]]
          IN  \E new \in {put, del} :
                /\ new # old
                /\ IF snap.sharesRouteHits
                   THEN stats' = [stats EXCEPT !.routeHits = new] /\ snap' = snap
                   ELSE snap' = [snap EXCEPT !.value.routeHits = new] /\ stats' = stats
    /\ UNCHANGED <<config, adapters, ctx, logged, procs, probe, now, lifecycle, views>>

InitStats ==
    /\ config = EmptyRec
    /\ adapters = HostAdapters
    /\ ctx = Host
    /\ stats = FreshStats(0)
    /\ logged = 0
    /\ procs = [p \in ProcIds |-> IdleProc]
    /\ probe = NoProbe
    /\ now = 0
    /\ snap = NoSnap
    /\ report = NoReport
    /\ ui = NoPanel
    /\ Initialised(OptionalCaps)

NextStats ==
    \/ Tick
    \/ CallRecorder
    \/ CallResetStats
    \/ CallGetStats
    \/ WriteSnapshotField
    \/ WriteSnapshotRouteHits

SpecStats == InitStats /\ [][NextStats]_vars

----------------------------------------------------------------------------
(* Dispatch calls, getStats reads and resets, in any order *)

LedgerConfigs ==
    { [routes |-> << [targetSessions |-> <<"c", "b">>] >>,
       outgoingRoutes |-> << [channelType |-> "x", channelId |-> "1"] >>] }

LedgerInputs == { [session |-> s, message |-> "hi"] : s \in SessionIds }

InitLedger ==
    /\ config \in LedgerConfigs
    /\ adapters = HostAdapters
    /\ ctx = Host
    /\ stats = FreshStats(0)
    /\ logged = 0
    /\ procs = [p \in ProcIds |-> IdleProc]
    /\ probe = NoProbe
    /\ now = 0
    /\ snap = NoSnap
    /\ report = NoReport
    /\ ui = NoPanel
    /\ Initialised(OptionalCaps)

NextLedger ==
    \/ \E p \in ProcIds :
          \/ InvokeIncomingOf(p, LedgerInputs)
          \/ InvokeOutgoingOf(p, BusyOutputs)
          \/ Deliver(p)
    \/ CallGetStats
    \/ CallResetStats

SpecLedger == InitLedger /\ [][NextLedger]_vars

----------------------------------------------------------------------------
(* Dispatch calls while the configuration provider changes the configuration *)

ProviderConfigs ==
    LedgerConfigs
    \cup { EmptyRec,
           [routes |-> << [sourceSession |-> "a", targetSessions |-> <<"b">>] >>,
            outgoingRoutes |-> << [channelId |-> "2"] >>] }

\* The provider replaces the configuration.
SetConfig ==
    /\ \E c \in ProviderConfigs \ {config} : config' = c
    /\ UNCHANGED <<adapters, ctx, stats, logged, procs, probe, rest>>

InitProvider ==
    /\ config \in ProviderConfigs
    /\ adapters = HostAdapters
    /\ ctx = Host
    /\ stats = FreshStats(0)
    /\ logged = 0
    /\ procs = [p \in ProcIds |-> IdleProc]
    /\ probe = NoProbe
    /\ now = 0
    /\ snap = NoSnap
    /\ report = NoReport
    /\ ui = NoPanel
    /\ Initialised(OptionalCaps)

NextProvider ==
    \/ SetConfig
    \/ \E p \in ProcIds :
          \/ InvokeIncomingOf(p, LedgerInputs)
          \/ InvokeOutgoingOf(p, BusyOutputs)
          \/ Deliver(p)

SpecProvider == InitProvider /\ [][NextProvider]_vars

----------------------------------------------------------------------------
(* Dispatch calls, resets and shutdown, in any order *)

InitLife ==
    /\ config \in LedgerConfigs
    /\ adapters = HostAdapters
    /\ ctx = Host
    /\ stats = FreshStats(0)
    /\ logged = 0
    /\ procs = [p \in ProcIds |-> IdleProc]
    /\ probe = NoProbe
    /\ now = 0
    /\ snap = NoSnap
    /\ report = NoReport
    /\ ui = NoPanel
    /\ Initialised({"unregisterMiddleware"})

NextLife ==
    \/ \E p \in ProcIds :
          \/ InvokeIncomingOf(p, LedgerInputs)
          \/ InvokeOutgoingOf(p, BusyOutputs)
          \/ Deliver(p)
    \/ CallResetStats
    \/ ShutdownBegin
    \/ ShutdownClosed

SpecLife == InitLife /\ [][NextLife]_vars

----------------------------------------------------------------------------
(* init and shutdown on every host *)

PluginConfigs ==
    {EmptyRec, [uiPort |-> 0], [uiPort |-> 8080]}
    \cup {c @@ [uiPort |-> 8080] : c \in LedgerConfigs}

InitPlugin ==
    /\ config \in PluginConfigs
    /\ adapters = HostAdapters
    /\ ctx = NoCtx
    /\ stats = FreshStats(0)
    /\ logged = 0
    /\ procs = [p \in ProcIds |-> IdleProc]
    /\ probe = NoProbe
    /\ now = 0
    /\ snap = NoSnap
    /\ report = NoReport
    /\ ui = NoPanel
    /\ uiServer = NoServer
    /\ cleanups = <<>>
    /\ host \in {NewHost(caps) : caps \in SUBSET OptionalCaps}
    /\ life = Loaded

NextPlugin ==
    \/ PluginInit
    \/ ShutdownBegin
    \/ ShutdownClosed

SpecPlugin == InitPlugin /\ [][NextPlugin]_vars

----------------------------------------------------------------------------
(* The reporters over every configuration *)

InitReport ==
    /\ config \in Configs
    /\ adapters = HostAdapters
    /\ ctx = Host
    /\ stats = FreshStats(0)
    /\ logged = 0
    /\ procs = [p \in ProcIds |-> IdleProc]
    /\ probe = NoProbe
    /\ now = 0
    /\ snap = NoSnap
    /\ report = NoReport
    /\ ui = NoPanel
    /\ Initialised(OptionalCaps)

NextReport ==
    \/ HttpRequest
    \/ CallBuildRouterStatus
    \/ CallBuildListRoutes

SpecReport == InitReport /\ [][NextReport]_vars

----------------------------------------------------------------------------
(* The statistics report over the ledgers recorder calls and resets produce *)

ReportedKeys == {<<"a", "b">>, <<"b", "c">>}

NextStatsReport ==
    \/ Tick
    \/ CallRecorderOf(ReportedKeys)
    \/ CallResetStats
    \/ CallStatsTool
    \/ HttpRequestOf({"/api/webmcp/stats"})

SpecStatsReport == InitStats /\ [][NextStatsReport]_vars

----------------------------------------------------------------------------
(* The uptime text of the statistics report, over uptimes around the unit
   boundaries *)

Near(c) == {c - 1, c, c + 1}

\* Whole seconds of uptime: a few seconds, and the neighbourhood of every
\* multiple of a minute, an hour and a day that the bound allows, alone and
\* combined.
UptimeSeconds ==
    (0 .. 2)
    \cup UNION {Near(k * 60) \cup Near(k * 3600) \cup Near(k * 86400)
                \cup Near(k * 3600 + 60) \cup Near(k * 86400 + 3600)
                \cup Near(k * 86400 + 60) : k \in 1 .. MaxCalls}

UptimeInputs == {s * 1000 + f : s \in UptimeSeconds, f \in {0, 999}}

InitUptime ==
    /\ config = EmptyRec
    /\ adapters = HostAdapters
    /\ ctx = Host
    /\ \E startedAt \in {0, 1} : stats = FreshStats(startedAt)
    /\ \E ms \in UptimeInputs : now = stats.startedAt + ms
    /\ logged = 0
    /\ procs = [p \in ProcIds |-> IdleProc]
    /\ probe = NoProbe
    /\ snap = NoSnap
    /\ report = NoReport
    /\ ui = NoPanel
    /\ Initialised(OptionalCaps)

NextUptime ==
    \/ CallStatsTool
    \/ HttpRequestOf({"/api/webmcp/stats"})

SpecUptime == InitUptime /\ [][NextUptime]_vars

----------------------------------------------------------------------------
(* The configuration panel alone *)

InitPanel ==
    /\ config = EmptyRec
    /\ adapters = HostAdapters
    /\ ctx = Host
    /\ stats = FreshStats(0)
    /\ logged = 0
    /\ procs = [p \in ProcIds |-> IdleProc]
    /\ probe = NoProbe
    /\ now = 0
    /\ snap = NoSnap
    /\ report = NoReport
    /\ ui = RouterPluginUI
    /\ Initialised(OptionalCaps)

NextPanel ==
    \/ MountLoaded
    \/ MountRejected
    \/ setNewSource
    \/ setNewTargets
    \/ setNewChannelType
    \/ handleAddRoute
    \/ handleDeleteRoute
    \/ SaveResolved
    \/ SaveRejected

SpecPanel == InitPanel /\ [][NextPanel]_vars

----------------------------------------------------------------------------
(* Overlapping dispatch calls on a host whose logger may throw *)

NextLogger ==
    \E p \in ProcIds :
        \/ InvokeIncomingOf(p, BusyInputs)
        \/ InvokeOutgoingOf(p, BusyOutputs)
        \/ Deliver(p)
        \/ InjectRejectedLogThrows(p)
        \/ SendRejectedLogThrows(p)

SpecLogger == InitBusy /\ [][NextLogger]_vars

----------------------------------------------------------------------------
(* Overlapping dispatch calls of both kinds, and shutdown at any point *)

\* One incoming rule with two targets, one outgoing rule that two adapters of
\* session "a" satisfy.
ClearedConfigs ==
    { [routes |-> << [targetSessions |-> <<"b", "c">>] >>,
       outgoingRoutes |-> << [channelType |-> "x"] >>] }

ClearedInputs == { [session |-> "a", message |-> "hi"] }

InitCleared ==
    /\ config \in ClearedConfigs
    /\ adapters = HostAdapters
    /\ ctx = Host
    /\ stats = FreshStats(0)
    /\ logged = 0
    /\ procs = [p \in ProcIds |-> IdleProc]
    /\ probe = NoProbe
    /\ now = 0
    /\ snap = NoSnap
    /\ report = NoReport
    /\ ui = NoPanel
    /\ Initialised({"unregisterMiddleware"})

NextCleared ==
    \/ \E p \in ProcIds :
          \/ InvokeIncomingOf(p, ClearedInputs)
          \/ InvokeOutgoingOf(p, BusyOutputs)
          \/ Deliver(p)
    \/ ShutdownBegin
    \/ ShutdownClosed

SpecCleared == InitCleared /\ [][NextCleared]_vars

----------------------------------------------------------------------------
(* C11 *)

HitsOf(pr, key) == IF key \in DOMAIN pr.hits THEN pr.hits[key] ELSE 0

HitKeys == UNION {DOMAIN procs[p].hits : p \in ProcIds}

TotalHits(key) == SumOver([p \in ProcIds |-> HitsOf(procs[p], key)], ProcIds)

NoneSuspended == \A p \in ProcIds : procs[p].pc \in {"idle", "done"}

\* The ledger holds the sums of the calls' tallies.
TalliesCounted ==
    /\ stats.messagesRouted = SumOver([k \in HitKeys |-> TotalHits(k)], HitKeys)
    /\ stats.outgoingRouted = SumOver([p \in ProcIds |-> procs[p].sent], ProcIds)
    /\ stats.errors = SumOver([p \in ProcIds |-> procs[p].failed], ProcIds)
    /\ DOMAIN stats.routeHits = HitKeys
    /\ \A k \in HitKeys : stats.routeHits[k] = TotalHits(k)

\* C11: when dispatch calls have overlapped in any order and none is still
\* suspended, the ledger holds the sums over the calls: messagesRouted is the
\* number of injects that succeeded, outgoingRouted the number of sends that
\* succeeded, errors the number of deliveries that failed, and routeHits
\* holds, for each source and target, the number of injects that succeeded
\* from that source to that target.
C11_NoUpdateLost == NoneSuspended => TalliesCounted

C11_Witness ==
    /\ \A p \in ProcIds : procs[p].pc = "done"
    /\ \E p, q \in ProcIds :
          /\ p # q
          /\ DOMAIN procs[p].hits \cap DOMAIN procs[q].hits # {}
          /\ procs[p].failed > 0
          /\ procs[q].kind = "in"
    /\ stats.errors > 0
    /\ stats.messagesRouted >= 3

----------------------------------------------------------------------------
(* C12 *)

\* C12: a value returned by getStats is isolated from the ledger.  A write by
\* the caller to a field of the value, or one that adds, changes or deletes an
\* entry of its routeHits, leaves what getStats returns next as it was; and a
\* recorder call or a reset leaves what the caller reads in the value as it
\* was.
C12_SnapshotIsolated ==
    [][ /\ (WriteSnapshotField \/ WriteSnapshotRouteHits) =>
                getStats(stats') = getStats(stats)
        /\ (snap.taken /\ (CallRecorder \/ CallResetStats)) =>
                SnapshotView' = SnapshotView ]_vars

C12_Witness ==
    /\ snap.taken
    /\ snap.value.messagesRouted = 9
    /\ \E k \in DOMAIN snap.value.routeHits : snap.value.routeHits[k] = 9
    /\ stats.messagesRouted = 1
    /\ \E k \in DOMAIN stats.routeHits :
          k \in DOMAIN snap.value.routeHits /\ stats.routeHits[k] = 1

----------------------------------------------------------------------------
(* C13 *)

\* C13: resetStats can be called in every state, and the call leaves
\* messagesRouted, outgoingRouted and errors at 0, routeHits empty and
\* startedAt at the current time, which is not earlier than the startedAt
\* it replaces.
C13_ResetFromAnyState ==
    /\ [](ENABLED CallResetStats)
    /\ [][CallResetStats =>
            /\ stats'.messagesRouted = 0
            /\ stats'.outgoingRouted = 0
            /\ stats'.errors = 0
            /\ stats'.routeHits = EmptyRec
            /\ stats'.startedAt = now
            /\ stats'.startedAt >= stats.startedAt]_vars

\* A value returned before the reset still shows the ledger the reset
\* replaced.
C13_Witness ==
    /\ snap.taken
    /\ Recorded(snap.value) = MaxCalls
    /\ snap.value.routeHits # EmptyRec
    /\ snap.value.startedAt < stats.startedAt
    /\ Recorded(stats) = 0
    /\ stats.startedAt = now

----------------------------------------------------------------------------
(* C14 *)

CountAt(st, key) == IF key \in DOMAIN st.routeHits THEN st.routeHits[key] ELSE 0

\* C14: a step that is not a reset never lowers messagesRouted,
\* outgoingRouted, errors or the count at a routeHits key, and never removes
\* a routeHits key, whatever dispatch calls and getStats reads surround it.
C14_MonotoneBetweenResets ==
    [][~CallResetStats =>
            /\ stats'.messagesRouted >= stats.messagesRouted
            /\ stats'.outgoingRouted >= stats.outgoingRouted
            /\ stats'.errors >= stats.errors
            /\ DOMAIN stats.routeHits \subseteq DOMAIN stats'.routeHits
            /\ \A k \in DOMAIN stats.routeHits :
                  stats'.routeHits[k] >= stats.routeHits[k]]_vars

\* Two calls have added two keys since the last reset, which came after a
\* read of a ledger that already showed a hit.
C14_Witness ==
    /\ snap.taken
    /\ snap.value.routeHits # EmptyRec
    /\ Cardinality(DOMAIN stats.routeHits) = 2
    /\ stats.messagesRouted = 2
    /\ DOMAIN snap.value.routeHits \cap DOMAIN stats.routeHits = {}
    /\ \E p \in ProcIds : procs[p].pc = "fanOutReturned"

----------------------------------------------------------------------------
(* C15 *)

\* How many of the injects owed name target t.
TimesOwed(owed, t) == Cardinality({n \in 1 .. Len(owed) : owed[n].to = t})

\* C15: rules that overlap are not deduplicated.  When an onIncoming call
\* that started from a fresh ledger has returned and every inject succeeded,
\* messagesRouted is the number of (matching rule, eligible target) pairs,
\* counted with multiplicity, and the routeHits count of "<session>-><t>" is
\* the number of times t is an eligible target across the matching rules.
C15_OverlapCountedWithMultiplicity ==
    LET pr == procs[1]
        owed == ExpectedInjects(pr)
    IN  (Finished(pr, "in") /\ stats.errors = 0) =>
            /\ stats.messagesRouted = Len(owed)
            /\ \A t \in TargetNames :
                  CountAt(stats, RouteKey(pr.input.session, t)) = TimesOwed(owed, t)
            /\ DOMAIN stats.routeHits =
                  {RouteKey(pr.input.session, owed[n].to) : n \in 1 .. Len(owed)}

C15_Witness ==
    LET pr == procs[1]
    IN  /\ Finished(pr, "in")
        /\ stats.errors = 0
        /\ stats.messagesRouted >= 3
        /\ \E n, m \in 1 .. Len(pr.attempts) :
              /\ pr.attempts[n].rule # pr.attempts[m].rule
              /\ pr.attempts[n].to = pr.attempts[m].to
              /\ stats.routeHits[RouteKey(pr.input.session, pr.attempts[n].to)] = 2

----------------------------------------------------------------------------
(* C16 *)

RulesFor(kind, cfg) ==
    LET f == IF kind = "in" THEN "routes" ELSE "outgoingRoutes"
    IN  IF Has(cfg, f) THEN cfg[f] ELSE <<>>

\* C16: the configuration is read when a dispatch call starts and is not
\* kept from one call to the next.  The rule list a call works through is
\* the one the provider holds in the step that starts the call; a call that
\* starts after a change works through the new list only, and a call already
\* started keeps the list it read.
C16_ConfigReadAtEachCall ==
    [][\A p \in ProcIds :
          /\ (procs[p].pc = "idle" /\ procs'[p].pc # "idle"
                    /\ procs'[p].fault # "getConfig") =>
                /\ procs'[p].routes = RulesFor(procs'[p].kind, config)
                /\ \A n \in 1 .. Len(procs'[p].attempts) :
                      procs'[p].attempts[n].rule \in 1 .. Len(RulesFor(procs'[p].kind, config))
          /\ procs[p].pc # "idle" => procs'[p].routes = procs[p].routes]_vars

C16_Witness ==
    /\ \A p \in {1, 2} : Finished(procs[p], "in") /\ procs[p].attempts # <<>>
    /\ procs[1].input = procs[2].input
    /\ procs[1].routes # procs[2].routes
    /\ procs[1].attempts # procs[2].attempts
    /\ procs[2].routes = RulesFor("in", config)
    /\ life.config # config

----------------------------------------------------------------------------
(* C17 *)

\* C17: there is no cancellation.  An onIncoming call that has begun makes
\* an inject attempt for every eligible target of every matching rule before
\* it returns, also when shutdown or resetStats ran while it was suspended in
\* a delivery.
C17_NoCancellation ==
    \A p \in ProcIds :
        Finished(procs[p], "in") =>
            Len(procs[p].attempts) = Len(ExpectedInjects(procs[p]))

----------------------------------------------------------------------------
(* C18 *)

\* C18: a delivery that never returns stalls only its own dispatch call.
\* While the call Hung may stay suspended in inject or send for ever, every
\* other call that has started and whose host calls return runs to its
\* return, and the ledger then holds its deliveries.
C18_OthersComplete ==
    \A p \in ProcIds \ {Hung} :
        (procs[p].pc \notin {"idle", "done"}) ~>
            (procs[p].pc = "done" /\ TalliesCounted)

\* A call has returned with deliveries made and counted after the call Hung
\* was suspended in its first delivery, where it still is.
C18_Witness ==
    /\ Suspended(procs[Hung])
    /\ Len(procs[Hung].attempts) = 1
    /\ \E p \in ProcIds \ {Hung} :
          /\ procs[p].pc = "done"
          /\ Len(procs[p].attempts) >= 2
          /\ procs[p].failed > 0
          /\ procs[p].hits # EmptyRec \/ procs[p].sent > 0
    /\ TalliesCounted

----------------------------------------------------------------------------
(* C19 *)

\* C19: shutdown does not wait for dispatch calls.  It can begin while calls
\* are suspended, it can complete as soon as the UI server has closed
\* whatever the calls are doing, and the step that completes it resets the
\* ledger and resumes no call.
C19_ShutdownDoesNotWait ==
    /\ [](life.pc = "running" => ENABLED ShutdownBegin)
    /\ [](life.pc = "closing" => ENABLED ShutdownClosed)
    /\ [][ShutdownClosed =>
            /\ life'.pc = "stopped"
            /\ stats' = FreshStats(now)
            /\ procs' = procs]_vars

C19_Witness ==
    /\ life.pc = "stopped"
    /\ stats = FreshStats(now)
    /\ \E p \in ProcIds : Suspended(procs[p]) /\ procs[p].hits # EmptyRec
    /\ \E p \in ProcIds : procs[p].pc = "send"

----------------------------------------------------------------------------
(* C20 *)

\* C20: on a host with any combination of the optional capabilities, init
\* (whose getConfig returns) succeeds and has registered exactly one
\* middleware, named "router", with the handlers onIncoming and onOutgoing;
\* and neither init nor shutdown ever calls an optional capability the host
\* lacks.
C20_InitToleratesAbsentCapabilities ==
    /\ (life.pc # "loaded" /\ life.fault # "getConfig") =>
            /\ life.pc \in {"running", "closing", "stopped"}
            /\ host.middleware = <<RouterMiddleware>>
    /\ \A n \in 1 .. Len(host.calls) :
            host.calls[n] \in OptionalCaps => host.calls[n] \in host.caps

\* A host with an A2A registry and an unregisterMiddleware hook and nothing
\* else optional, after init and shutdown.
C20_Witness ==
    /\ life.pc = "stopped"
    /\ life.fault = "none"
    /\ host.caps = {"registerA2AServer", "unregisterMiddleware"}
    /\ host.middleware = <<RouterMiddleware>>
    /\ \E n \in 1 .. Len(host.calls) : host.calls[n] = "registerA2AServer"
    /\ \E n \in 1 .. Len(host.calls) : host.calls[n] = "unregisterMiddleware"
    /\ uiServer = NoServer

----------------------------------------------------------------------------
(* C21 *)

\* C21: every delivery failure is surfaced to the logger.  A step that
\* counts a failed inject or a failed send in errors makes one call to the
\* host logger's error operation.
C21_EachFailureLogged ==
    [][stats'.errors = stats.errors + 1 => logged' = logged + 1]_vars

----------------------------------------------------------------------------
(* C22 *)

\* C22: an absent rule list is an empty rule set.  A call of onIncoming
\* when the configuration has no routes, or of onOutgoing when it has no
\* outgoingRoutes, returns the original text at once: it makes no delivery,
\* raises no error, logs nothing and leaves the ledger as it was.
C22_AbsentListIsEmptyRuleSet ==
    LET pr == procs[1]
        list == IF pr.kind = "in" THEN "routes" ELSE "outgoingRoutes"
    IN  (pr.pc # "idle" /\ pr.fault # "getConfig" /\ ~Has(config, list)) =>
            /\ pr.pc = "done"
            /\ pr.result = "returned"
            /\ pr.ret = Text(pr)
            /\ pr.attempts = <<>>
            /\ stats = FreshStats(0)
            /\ logged = 0

C22_Witness ==
    /\ procs[1].kind = "in"
    /\ procs[1].result = "returned"
    /\ ~Has(config, "routes")
    /\ Has(config, "outgoingRoutes")
    /\ Len(config.outgoingRoutes) = 2

----------------------------------------------------------------------------
(* C23 *)

\* C23: a fault met while the status, routes or stats payload of an API
\* request is built never leaves the request handler: the request is
\* answered, and when a fault was met the answer is status 500 with the
\* generic internal-error payload.
C23_ApiFaultCaught ==
    (report.via = "http" /\ report.what \in ApiUrls) =>
        /\ ~report.response.escaped
        /\ report.fault # "none" => report.response = InternalError
        /\ report.fault = "none" => report.response.statusCode = 200

C23_Witness ==
    /\ report.via = "http"
    /\ report.what = "/api/webmcp/routes"
    /\ report.fault = "getConfig"
    /\ report.response.statusCode = 500
    /\ Has(config, "routes")

----------------------------------------------------------------------------
(* C24 *)

IsStatsReport(r) ==
    /\ r.via \in {"http", "a2a"}
    /\ r.what \in {"/api/webmcp/stats", "router.stats"}

\* C24: the statistics report built from a snapshot of the ledger has
\* messages.total = messagesRouted + outgoingRouted and messages.errors =
\* errors, and its routeHits list holds exactly one {route, count} pair for
\* each key of the snapshot's routeHits, with that key's count; building it
\* leaves the ledger as it was.
C24_StatsReportFaithful ==
    [][(report' # report /\ IsStatsReport(report')) =>
            LET body == report'.response.body
                list == body.routeHits
            IN  /\ body.messages.total = stats.messagesRouted + stats.outgoingRouted
                /\ body.messages.errors = stats.errors
                /\ Len(list) = Cardinality(DOMAIN stats.routeHits)
                /\ \A n \in 1 .. Len(list) :
                      /\ list[n].route \in DOMAIN stats.routeHits
                      /\ list[n].count = stats.routeHits[list[n].route]
                /\ \A k \in DOMAIN stats.routeHits :
                      Cardinality({n \in 1 .. Len(list) : list[n].route = k}) = 1
                /\ stats' = stats]_vars

C24_Witness ==
    /\ IsStatsReport(report)
    /\ report.via = "http"
    /\ Len(report.response.body.routeHits) = 2
    /\ Cardinality(DOMAIN stats.routeHits) = 2
    /\ report.response.body.uptime.ms > 0
----------------------------------------------------------------------------
(* C25 *)

IsStatusSummary(r) == r.via = "call" /\ r.what = "buildRouterStatusResponse"

\* C25: the status summary reports enabled as the running flag it was given,
\* incoming.count and outgoing.count as the lengths of the routes and
\* outgoingRoutes lists (0 for an absent list), and totalRoutes as their sum.
C25_StatusSummary ==
    IsStatusSummary(report) =>
        LET body == report.response.body
            nIn == IF "routes" \in DOMAIN config THEN Len(config.routes) ELSE 0
            nOut == IF "outgoingRoutes" \in DOMAIN config
                    THEN Len(config.outgoingRoutes) ELSE 0
        IN  /\ body.enabled = report.serverRunning
            /\ body.incoming.count = nIn
            /\ body.outgoing.count = nOut
            /\ body.totalRoutes = nIn + nOut

C25_Witness ==
    /\ IsStatusSummary(report)
    /\ ~report.serverRunning
    /\ "routes" \notin DOMAIN config
    /\ report.response.body.outgoing.count >= 1
    /\ uiServer # NoServer
----------------------------------------------------------------------------
(* C26 *)

IsRuleListing(r) ==
    \/ r.via = "call" /\ r.what = "buildListRoutesResponse"
    \/ r.via = "http" /\ r.what = "/api/webmcp/routes" /\ r.response.statusCode = 200

ConfiguredIncoming == IF "routes" \in DOMAIN config THEN config.routes ELSE <<>>

\* The listing holds exactly the summaries `expected`, in that order.
ListsSummaries(expected) ==
    IsRuleListing(report) =>
        LET listed == report.response.body.incoming
        IN  /\ Len(listed) = Len(expected)
            /\ \A n \in 1 .. Len(expected) : listed[n].summary = expected[n]

SummaryOfPresentFields(r) ==
    LET targets == IF "targetSessions" \in DOMAIN r THEN r.targetSessions ELSE <<>>
    IN  (IF "sourceSession" \in DOMAIN r THEN r.sourceSession ELSE "*")
        \o " -> "
        \o (IF targets = <<>> THEN "(none)" ELSE Join(targets, ", "))
        \o (IF "channelType" \in DOMAIN r THEN " [" \o r.channelType \o "]" ELSE "")

SummaryOfNonEmptyFields(r) ==
    LET targets == IF "targetSessions" \in DOMAIN r THEN r.targetSessions ELSE <<>>
    IN  (IF "sourceSession" \in DOMAIN r /\ r.sourceSession # ""
         THEN r.sourceSession ELSE "*")
        \o " -> "
        \o (IF targets = <<>> \/ targets = <<"">> THEN "(none)" ELSE Join(targets, ", "))
        \o (IF "channelType" \in DOMAIN r /\ r.channelType # ""
            THEN " [" \o r.channelType \o "]" ELSE "")

\* C26 as stated: each incoming rule is listed, in declared order, with the
\* summary "<source> -> <targets joined by ', '>" followed by
\* " [<channelType>]" only when channelType is set, the source being "*" when
\* sourceSession is absent and the target part "(none)" when the target list
\* is empty or absent.
C26_SummaryByPresence ==
    ListsSummaries([n \in 1 .. Len(ConfiguredIncoming) |->
                        SummaryOfPresentFields(ConfiguredIncoming[n])])

\* C26 amended: each incoming rule is listed, in declared order, with the
\* summary "<source> -> <targets>" followed by " [<channelType>]" only when
\* channelType is present and not the empty string; the source is "*" when
\* sourceSession is absent or the empty string; the target part is "(none)"
\* when the targets joined by ", " give the empty text (list absent, empty, or
\* holding a single empty string).
C26_SummaryByTruthiness ==
    ListsSummaries([n \in 1 .. Len(ConfiguredIncoming) |->
                        SummaryOfNonEmptyFields(ConfiguredIncoming[n])])

C26_Witness ==
    /\ IsRuleListing(report)
    /\ Len(report.response.body.incoming) = 2
    /\ report.response.body.incoming[1].summary # report.response.body.incoming[2].summary
    /\ \E n \in 1 .. 2 : report.response.body.incoming[n].summary = "* -> c [x]"
    /\ \E n \in 1 .. 2 : report.response.body.incoming[n].summary = "a -> , b, "
----------------------------------------------------------------------------
(* C27 *)

\* The uptime text by units of whole seconds.
HumanUptime(ms) ==
    LET s == ms \div 1000
    IN  IF s >= 86400
        THEN ToString(s \div 86400) \o "d " \o ToString((s \div 3600) % 24) \o "h"
        ELSE IF s >= 3600
        THEN ToString(s \div 3600) \o "h " \o ToString((s \div 60) % 60) \o "m"
        ELSE IF s >= 60
        THEN ToString(s \div 60) \o "m " \o ToString(s % 60) \o "s"
        ELSE ToString(s) \o "s"

\* C27: the human uptime text is "<d>d <h>h" with h the hours modulo 24 from
\* one day of uptime on, otherwise "<h>h <m>m" with m the minutes modulo 60
\* from one hour on, otherwise "<m>m <s>s" with s the seconds modulo 60 from
\* one minute on, otherwise "<s>s": the forms change exactly at 60 s, 3600 s
\* and 86400 s.
C27_UptimeByLargestUnit ==
    (IsStatsReport(report) /\ report.response.statusCode = 200) =>
        LET uptime == report.response.body.uptime
        IN  /\ uptime.ms = now - stats.startedAt
            /\ uptime.human = HumanUptime(uptime.ms)

C27_Witness ==
    /\ IsStatsReport(report)
    /\ report.response.statusCode = 200
    /\ report.response.body.uptime.ms = 90000999
    /\ report.response.body.uptime.human = "1d 1h"
----------------------------------------------------------------------------
(* C28 *)

\* C28: a click on Add Route while the source field or the targets field is
\* empty does nothing: saveConfig is not called, and the route list and the
\* three form fields stay as they are.
C28_AddWithEmptyFieldIsNoOp ==
    [][(/\ ui'.adds = ui.adds + 1
        /\ (ui.newSource = <<>> \/ ui.newTargets = <<>>))
       => /\ ui'.saves = ui.saves
          /\ ui'.pending = ui.pending
          /\ ui'.routes = ui.routes
          /\ ui'.outgoingRoutes = ui.outgoingRoutes
          /\ ui'.newSource = ui.newSource
          /\ ui'.newTargets = ui.newTargets
          /\ ui'.newChannelType = ui.newChannelType]_vars

C28_Witness ==
    /\ ui.adds = 2
    /\ ui.saves = <<>>
    /\ ui.newSource = <<"a">>
    /\ ui.newTargets = <<>>
    /\ ui.newChannelType = <<"x">>
    /\ Len(ui.routes) = 1
----------------------------------------------------------------------------
(* C29 *)

\* C29: in every reachable state, whatever the interleaving of dispatch
\* calls, resets and shutdown, messagesRouted equals the sum of the counts
\* of routeHits.
C29_RoutedEqualsRouteHits == stats.messagesRouted = RouteHitsTotal(stats)

C29_Witness ==
    /\ life.pc # "running"
    /\ stats.messagesRouted = 2
    /\ Cardinality(DOMAIN stats.routeHits) = 2
    /\ \E p \in ProcIds : procs[p].kind = "in" /\ procs[p].hits # <<>> /\ Suspended(procs[p])
----------------------------------------------------------------------------
(* C30 *)

\* The step in which a delivery of call p failed and log.error threw.
LogFailedAt(p) == procs[p].fault = "none" /\ procs'[p].fault = "log.error"

\* C30: when log.error itself fails while a delivery failure is handled,
\* errors is still incremented and the call goes on to its remaining
\* targets, adapters and rules, as it does after a failure that was logged.
C30_LoggerFailureDoesNotDisturb ==
    [][\A p \in ProcIds :
          LogFailedAt(p) =>
              LET next == IF procs[p].kind = "in"
                          THEN InjectRejectedThen(procs[p])
                          ELSE SendRejectedThen(procs[p])
              IN  /\ stats'.errors = stats.errors + 1
                  /\ procs'[p].pc = next.pc
                  /\ procs'[p].i = next.i
                  /\ procs'[p].j = next.j]_vars

----------------------------------------------------------------------------
(* C31 *)

\* The deliveries the calls `ps` have completed so far, by kind.
InjectsDone(ps) ==
    SumOver([p \in ProcIds |-> SumOver(ps[p].hits, DOMAIN ps[p].hits)], ProcIds)

SendsDone(ps) == SumOver([p \in ProcIds |-> ps[p].sent], ProcIds)

FailuresDone(ps) == SumOver([p \in ProcIds |-> ps[p].failed], ProcIds)

\* C31: each counter is the number of deliveries of its kind completed since
\* the last reset, whenever those deliveries were started.  A step that
\* completes no delivery leaves the ledger as it is or, when it is a reset
\* (resetStats, or the end of shutdown), leaves every counter at zero; every
\* step in which a call completes a delivery adds exactly that delivery to
\* the ledger of that moment, also when a reset came between the start of
\* the delivery and its completion.  So counters can be non-zero after
\* shutdown without a new dispatch having started.
C31_CompletionsCountInCurrentLedger ==
    [][IF procs' = procs
       THEN stats' = stats \/ stats' = FreshStats(now)
       ELSE /\ stats'.messagesRouted =
                    stats.messagesRouted + InjectsDone(procs') - InjectsDone(procs)
            /\ RouteHitsTotal(stats') =
                    RouteHitsTotal(stats) + InjectsDone(procs') - InjectsDone(procs)
            /\ stats'.outgoingRouted =
                    stats.outgoingRouted + SendsDone(procs') - SendsDone(procs)
            /\ stats'.errors =
                    stats.errors + FailuresDone(procs') - FailuresDone(procs)]_vars

\* Shutdown has ended, and the ledger it left empty holds an inject and a
\* send: deliveries that calls started before shutdown completed after it,
\* while an inject completed before shutdown is no longer counted.
C31_Witness ==
    /\ life.pc = "stopped"
    /\ stats.messagesRouted = 1
    /\ stats.outgoingRouted = 1
    /\ InjectsDone(procs) = 2
    /\ SendsDone(procs) = 1

----------------------------------------------------------------------------
(* C32 *)

\* C32: the two directions write disjoint parts of the ledger.  A step of an
\* onIncoming call never changes outgoingRouted, a step of an onOutgoing call
\* never changes messagesRouted or routeHits, and no step of either changes
\* startedAt; errors is the one counter both write.
C32_DirectionsWriteDisjointParts ==
    [][\A p \in ProcIds :
          procs'[p] # procs[p] =>
              /\ stats'.startedAt = stats.startedAt
              /\ procs'[p].kind = "in" => stats'.outgoingRouted = stats.outgoingRouted
              /\ procs'[p].kind = "out" =>
                    /\ stats'.messagesRouted = stats.messagesRouted
                    /\ stats'.routeHits = stats.routeHits]_vars

\* An onIncoming call and an onOutgoing call have each completed a delivery
\* and each failed one: errors holds both failures.
C32_Witness ==
    /\ \E p \in ProcIds :
          procs[p].kind = "in" /\ procs[p].hits # EmptyRec /\ procs[p].failed = 1
    /\ \E p \in ProcIds :
          procs[p].kind = "out" /\ procs[p].sent = 1 /\ procs[p].failed = 1
    /\ stats.errors = 2
    /\ stats.messagesRouted >= 1
    /\ stats.outgoingRouted = 1

----------------------------------------------------------------------------
(* C33 *)

ConstraintFields == {"sourceSession", "channelType", "channelId"}

\* The rule without its constraint fields that hold the empty string.
WithoutBlankFields(r) ==
    [f \in {g \in DOMAIN r : g \notin ConstraintFields \/ r[g] # ""} |-> r[f]]

WithoutBlankFieldsAll(routes) ==
    [n \in 1 .. Len(routes) |-> WithoutBlankFields(routes[n])]

\* The injects owed from rule i on when a rule constrains by every field it has.
RECURSIVE InjectsByPresence(_, _, _)
InjectsByPresence(routes, input, i) ==
    IF i > Len(routes) THEN <<>>
    ELSE (IF FieldsAgree(TRUE, routes[i], input)
          THEN InjectsOfRule(routes[i], input, i) ELSE <<>>)
         \o InjectsByPresence(routes, input, i + 1)

\* C33: a constraint field holding the empty string behaves as if the rule
\* did not have it.  An onIncoming call injects as it would for the rules
\* with every empty sourceSession, channelType and channelId removed, and an
\* onOutgoing call sends as it would for the rules with those fields
\* removed: a rule whose sourceSession is "" is skipped for no session.
C33_BlankFieldIsAbsentField ==
    \A p \in ProcIds :
        LET pr == procs[p]
            rules == WithoutBlankFieldsAll(pr.routes)
            expected == IF pr.kind = "in"
                        THEN InjectsByPresence(rules, pr.input, 1)
                        ELSE SendsFrom(TRUE, rules, pr.input, 1)
        IN  (Served(pr, "in") \/ Served(pr, "out")) =>
                /\ IsPrefix(pr.attempts, expected)
                /\ pr.pc = "done" => pr.attempts = expected

\* A message without a channel, from a session other than the one that the
\* rule would name, was delivered by a rule whose three fields are all "".
C33_Witness ==
    /\ Finished(procs[1], "in")
    /\ Len(procs[1].routes) = 1
    /\ \A f \in ConstraintFields :
          Has(procs[1].routes[1], f) /\ procs[1].routes[1][f] = ""
    /\ ~Has(procs[1].input, "channel")
    /\ Len(procs[1].attempts) = 2
    /\ stats.messagesRouted = 1
    /\ stats.errors = 1

----------------------------------------------------------------------------
(* C34 *)

\* Every handler call made in this step, the context being cleared, returns
\* the original text at once: no inject, no send, no counter changed, no
\* error raised or logged.
ClearedCallsDoNothing ==
    \A p \in ProcIds :
        (ctx = NoCtx /\ procs[p].pc = "idle" /\ procs'[p] # procs[p]) =>
            /\ procs'[p].pc = "done"
            /\ procs'[p].result = "returned"
            /\ procs'[p].ret = Text(procs'[p])
            /\ procs'[p].attempts = <<>>
            /\ stats' = stats
            /\ logged' = logged

\* Every call of one of `kinds` that was in flight when the context was
\* cleared and moves in this step starts no further delivery: the delivery
\* it awaited, if any, is the one thing counted.
InFlightSkipsRest(kinds) ==
    \A p \in ProcIds :
        (/\ ctx = NoCtx
         /\ procs[p].kind \in kinds
         /\ procs[p].pc \notin {"idle", "done"}
         /\ procs'[p] # procs[p]) =>
            /\ procs'[p].attempts = procs[p].attempts
            /\ ~Suspended(procs'[p])
            /\ IF Suspended(procs[p])
               THEN Settled(stats') = Settled(stats) + 1
               ELSE stats' = stats

\* An onOutgoing call in flight when the context was cleared goes on through
\* the adapters it already holds for its current rule, and starts no send
\* for a later rule.
InFlightSendsWithinRule ==
    \A p \in ProcIds :
        (/\ ctx = NoCtx
         /\ procs[p].kind = "out"
         /\ procs[p].pc \notin {"idle", "done"}
         /\ procs'[p].attempts # procs[p].attempts) =>
            /\ procs[p].pc = "send"
            /\ procs'[p].i = procs[p].i
            /\ procs'[p].channels = procs[p].channels

\* C34 as stated: once shutdown has cleared the host context, a call of
\* onIncoming or onOutgoing makes no inject and no send, changes no counter,
\* raises no error and returns the original text; and a dispatch in flight
\* when the context is cleared skips what it had left to deliver to, without
\* incrementing errors.
C34_ClearedContextStopsEveryDispatch ==
    [][ClearedCallsDoNothing /\ InFlightSkipsRest({"in", "out"})]_vars

\* C34 amended: once shutdown has cleared the host context, a call of
\* onIncoming or onOutgoing makes no inject and no send, changes no counter,
\* raises no error and returns the original text; an onIncoming call in
\* flight when the context is cleared skips its remaining targets and rules
\* without incrementing errors; an onOutgoing call in flight still sends to
\* the remaining adapters of the rule it is in, and sends nothing for later
\* rules.
C34_ClearedContextStopsIncomingDispatch ==
    [][/\ ClearedCallsDoNothing
       /\ InFlightSkipsRest({"in"})
       /\ InFlightSendsWithinRule]_vars

\* The context is cleared.  A call that was in its first inject has returned
\* with that one inject, counted after shutdown, and nothing for the targets
\* it had left; a call made since has returned with nothing done.
C34_Witness ==
    /\ ctx = NoCtx
    /\ life.pc = "stopped"
    /\ \E p \in ProcIds :
          /\ Finished(procs[p], "in")
          /\ Len(procs[p].attempts) = 1
          /\ Len(InjectsByPresence(procs[p].routes, procs[p].input, 1)) > 1
    /\ \E p \in ProcIds :
          /\ procs[p].pc = "done"
          /\ procs[p].result = "returned"
          /\ procs[p].routes = <<>>
          /\ procs[p].attempts = <<>>
    /\ stats.messagesRouted = 1
    /\ stats.errors = 0

====
